---- MODULE Spec2Model ----
(***************************************************************************)
(* State machine of the OpenCodeProvider of opencode-afk                   *)
(* (src/src/providers/OpenCodeProvider.tsx): the stale-while-revalidate    *)
(* cache of sessions, per-session messages and projects, the connection,   *)
(* and the live-update subscription (event stream plus polling timer).     *)
(*                                                                         *)
(* The provider runs on one event loop.  Every action below is one         *)
(* run-to-completion step: a call of a context function up to its first    *)
(* await, or the continuation that runs when a network call settles, a     *)
(* timer fires or the stream yields.                                       *)
(*                                                                         *)
(* Abstractions.  CacheEntry.timestamp is written and never read by any    *)
(* code, so an entry is modelled by its data.  serverUrl selects the       *)
(* server and takes part in no decision; it is left out.  Objects that     *)
(* nothing references any more are dropped (garbage collection).           *)
(*                                                                         *)
(* The workspace manager (docs/plans/2026-02-28-workspace-implementation   *)
(* .md, called by app/(tabs)/workspaces.tsx and the create screen) keeps   *)
(* the workspace list and the selection in React state and in two          *)
(* AsyncStorage items.  A function called from a screen reads the state of *)
(* the latest render, which is the state at the time of the call; what it  *)
(* reads after an await is what its closure captured at the call.          *)
(***************************************************************************)
EXTENDS Bags, FiniteSets, Integers, Sequences, TLC

(***************************************************************************)
(* Bounds of the exploration.                                              *)
(***************************************************************************)
\* network calls that user actions, stream events and timer ticks may have
\* in flight at once
MaxInFlight == 1
\* subscription objects (abort controller, stream task, interval) that are
\* alive at once, cancelled ones included
MaxSubs == 1
\* replaced cache objects that in-flight fetches may still hold
MaxStaleCaches == 1
\* createWorkspace calls over a run
MaxWorkspaces == 2
\* storage calls that are pending at once
MaxStorage == 2

(***************************************************************************)
(* Values.                                                                 *)
(***************************************************************************)
\* an optional value: absent (null / undefined) or present
None == <<>>
Some(x) == <<x>>

SessionIds == {"s1", "s2"}
\* React state activeSessionId: a session id or null
null == "null"

\* Error.message of a rejected network call
ErrorMessages == {"Network request failed", "Request timed out"}
\* Error.name of a rejected or failing event stream
ErrorNames == {"AbortError", "Error"}

\* Text of a message part, as a sequence of characters
TextHi == <<"h", "i">>
TextBlank == <<" ">>
\* MessageWithParts values the server returns
MsgUser == [id |-> "m1", role |-> "user",
            parts |-> <<[type |-> "text", text |-> TextHi]>>]
MsgTool == [id |-> "m2", role |-> "assistant",
            parts |-> <<[type |-> "tool", text |-> None],
                        [type |-> "text", text |-> TextBlank]>>]
\* responses of session.messages (result.data ?? [])
MessageLists == {<<>>, <<MsgUser, MsgTool>>}

\* date strings as sequences of digits; a missing or empty date is <<>>
SessA == [id |-> "s1", updatedAt |-> <<2>>, createdAt |-> <<1>>]
SessB == [id |-> "s2", updatedAt |-> <<>>, createdAt |-> <<3>>]
\* responses of session.list (result.data ?? [])
SessionLists == {<<SessA>>, <<SessA, SessB>>}

\* responses of project.list (result.data ?? [])
ProjectLists == {<<>>, <<[id |-> "p1"]>>}

\* The content of a server event: its type and the four places of its
\* properties that may carry a session id (null: the place is missing).
EventTypes == {"message.updated", "message.part.updated", "session.updated",
               "session.status", "server.connected"}
OptSession == SessionIds \cup {null}
EventBodies == [type : EventTypes,
                sessionID : OptSession,         \* properties.sessionID
                sessionOfSession : OptSession,  \* properties.session.id
                sessionOfPart : OptSession,     \* properties.part.sessionID
                sessionOfInfo : OptSession]     \* properties.info.sessionID
PlacesOf(b) == <<b.sessionID, b.sessionOfSession, b.sessionOfPart,
                 b.sessionOfInfo>>
Filled(b) == {i \in 1..4 : PlacesOf(b)[i] # null}
\* the bodies explored: of type message.updated with no place, one place or
\* two disagreeing places filled; of the other types with properties.sessionID
\* or nothing
Bodies == {b \in EventBodies :
              IF b.type = "message.updated"
              THEN \/ Cardinality(Filled(b)) <= 1
                   \/ /\ Cardinality(Filled(b)) = 2
                      /\ \E i, j \in Filled(b) :
                            PlacesOf(b)[i] # PlacesOf(b)[j]
              ELSE Filled(b) \subseteq {1}}
\* An item of the stream: a body itself, or a body wrapped as the payload of
\* an envelope whose own fields say something else.
Direct(b) == [payload |-> None, type |-> b.type, sessionID |-> b.sessionID,
              sessionOfSession |-> b.sessionOfSession,
              sessionOfPart |-> b.sessionOfPart,
              sessionOfInfo |-> b.sessionOfInfo]
Wrapped(b) == [payload |-> Some(b), type |-> "message.updated",
               sessionID |-> "s1", sessionOfSession |-> null,
               sessionOfPart |-> null, sessionOfInfo |-> null]
Events == {Direct(b) : b \in Bodies} \cup
          {Wrapped(b) : b \in {c \in Bodies : c.type = "session.status"}}

(***************************************************************************)
(* Pure helpers.                                                           *)
(***************************************************************************)
\* String.prototype.trim on a character sequence
RECURSIVE TrimLeft(_)
TrimLeft(t) == IF t # <<>> /\ Head(t) = " " THEN TrimLeft(Tail(t)) ELSE t
RECURSIVE TrimRight(_)
TrimRight(t) == IF t # <<>> /\ t[Len(t)] = " "
                THEN TrimRight(SubSeq(t, 1, Len(t) - 1)) ELSE t
Trim(t) == TrimRight(TrimLeft(t))

PreviewLimit == 60
PreviewKeep == 57
Ellipsis == <<".", ".", ".">>

\* first text part of a message with non-blank text, trimmed; None if none
RECURSIVE FirstText(_)
FirstText(parts) ==
    IF parts = <<>> THEN None
    ELSE LET part == Head(parts) IN
         IF part.type = "text" /\ part.text # None /\ Trim(part.text) # <<>>
         THEN Some(Trim(part.text))
         ELSE FirstText(Tail(parts))

\* extractPreview: the last message with text content, truncated
RECURSIVE extractPreview(_)
extractPreview(messages) ==
    IF messages = <<>> THEN <<>>
    ELSE LET found == FirstText(messages[Len(messages)].parts) IN
         IF found # None
         THEN LET text == found[1] IN
              IF Len(text) > PreviewLimit
              THEN SubSeq(text, 1, PreviewKeep) \o Ellipsis
              ELSE text
         ELSE extractPreview(SubSeq(messages, 1, Len(messages) - 1))

\* a.localeCompare(b) < 0 on digit strings: lexicographic order
RECURSIVE LexLess(_, _)
LexLess(a, b) ==
    IF b = <<>> THEN FALSE
    ELSE IF a = <<>> THEN TRUE
    ELSE IF Head(a) # Head(b) THEN Head(a) < Head(b)
    ELSE LexLess(Tail(a), Tail(b))

\* a.updatedAt || a.createdAt || ''
DateKey(s) == IF s.updatedAt # <<>> THEN s.updatedAt ELSE s.createdAt

\* insert x into a list sorted descending, after the entries that do not
\* compare below it (Array.prototype.sort is stable)
RECURSIVE InsertDesc(_, _)
InsertDesc(x, sorted) ==
    IF sorted = <<>> THEN <<x>>
    ELSE IF LexLess(DateKey(Head(sorted)), DateKey(x))
         THEN <<x>> \o sorted
         ELSE <<Head(sorted)>> \o InsertDesc(x, Tail(sorted))

\* the response left in the order the server sent it
Unsorted(list) == list
\* sessionsData.sort((a, b) => dateB.localeCompare(dateA))
RECURSIVE SortSessions(_)
SortSessions(list) ==
    IF list = <<>> THEN <<>>
    ELSE InsertDesc(list[Len(list)],
                    SortSessions(SubSeq(list, 1, Len(list) - 1)))

\* { ...session, preview }
WithPreview(s, p) == [id |-> s.id, updatedAt |-> s.updatedAt,
                      createdAt |-> s.createdAt, preview |-> p]

(***************************************************************************)
(* State.                                                                  *)
(***************************************************************************)
VARIABLES
    connected,                  \* useState connected
    connecting,                 \* useState connecting
    error,                      \* useState error: a message or null
    clientRef,                  \* clientRef.current is a client (not null)
    caches,                     \* caches[1] is the object cacheRef.current;
                                \* caches[1 + k] is the object it replaced k
                                \* disconnects ago, kept while a fetch holds it
    sessions,                   \* useState sessions
    sessionsLoading,
    sessionsRefreshing,
    sessionMessagesState,       \* useState Map sessionId -> messages
    sessionMessagesLoading,     \* useState Set of session ids
    sessionMessagesRefreshing,  \* useState Set of session ids
    projects,                   \* useState projects
    projectsLoading,
    activeSessionId,            \* useState activeSessionId
    subs,                       \* bag of subscription objects, see NewSub
    inflight,                   \* bag of pending asynchronous calls, see Call
    workspaces,                 \* useState workspaces
    currentWorkspace,           \* useState currentWorkspace: None is null
    workspacesLoading,          \* useState workspacesLoading
    storedWorkspaces,           \* AsyncStorage item '@workspaces'
    storedCurrentWorkspace,     \* AsyncStorage item '@currentWorkspace'
    storage,                    \* queue of pending AsyncStorage calls, see
                                \* StorageCall
    created,                    \* workspace ids generated so far
    isSending,                  \* useState isSending
    groupedSessions             \* useMemo groupedSessions of SessionsScreen:
                                \* the value of its last render

vars == <<connected, connecting, error, clientRef, caches, sessions,
          sessionsLoading, sessionsRefreshing, sessionMessagesState,
          sessionMessagesLoading, sessionMessagesRefreshing, projects,
          projectsLoading, activeSessionId, subs, inflight, workspaces,
          currentWorkspace, workspacesLoading, storedWorkspaces,
          storedCurrentWorkspace, storage, created, isSending,
          groupedSessions>>

connVars == <<connected, connecting, clientRef>>
sessionsVars == <<sessions, sessionsLoading, sessionsRefreshing>>
messagesVars == <<sessionMessagesState, sessionMessagesLoading,
                  sessionMessagesRefreshing>>
projectsVars == <<projects, projectsLoading>>
subVars == <<activeSessionId, subs>>
\* the workspace manager: its React state, its two storage items, its pending
\* storage calls
wsVars == <<workspaces, currentWorkspace, workspacesLoading, storedWorkspaces,
            storedCurrentWorkspace, storage, created>>
\* everything else
providerVars == <<connVars, error, caches, sessionsVars, messagesVars,
                  projectsVars, subVars, inflight, isSending,
                  groupedSessions>>

\* new Map() of session messages
EmptyMap == [s \in SessionIds |-> None]
\* { sessions: null, sessionMessages: new Map(), projects: null }
EmptyCache == [sessions |-> None, sessionMessages |-> EmptyMap,
               projects |-> None]

Add(bag, x) == bag (+) SetToBag({x})
Remove(bag, x) == bag (-) SetToBag({x})

\* A pending asynchronous call with the locals its continuation closes over
\* and the x-opencode-directory header of its request (None: no header):
\* cache is the index in caches of the object read from cacheRef.current
\* when the function started, cachedMessages the entry fetchSessionMessages
\* read then.  A kind "previews" call is a fetchSessions
\* waiting in Promise.all for the message calls of the sessions in pending.
Call(kind, sessionId, cachedMessages) ==
    [kind |-> kind, sid |-> sessionId, cache |-> 1,
     cachedMessages |-> cachedMessages, sorted |-> <<>>, pending |-> {},
     previews |-> EmptyMap, directory |-> None]

\* One subscribeToSession call: its AbortController (aborted), the state of
\* its startSubscription task (stream), its setInterval timer (timer), and
\* whether sseAbortControllerRef / pollingIntervalRef point at it.
NewSub(sessionId) ==
    [sid |-> sessionId, aborted |-> FALSE, stream |-> "opening",
     timer |-> TRUE, ctrlRef |-> TRUE, pollRef |-> TRUE]

\* a subscription object nothing can reach any more
Garbage(sub) == sub.aborted /\ sub.stream = "ended" /\ ~sub.timer
LiveSubs(bag) ==
    LET keep == {sub \in BagToSet(bag) : ~Garbage(sub)}
    IN [sub \in keep |-> bag[sub]]

\* Only a fetchSessions that awaits session.list reads the cache object it
\* holds after an await (the preview lookup).  A replaced object is therefore
\* kept only while such a call holds it; a call that holds a replaced object
\* nobody will read has cache = 0, and what it writes there is dropped.
Live(calls, i) ==
    i = 1 \/ \E r \in BagToSet(calls) : r.kind = "sessions" /\ r.cache = i
Commit(cs, calls) ==
    LET live == {i \in DOMAIN cs : Live(calls, i)} IN
    /\ caches' = [i \in DOMAIN cs |-> IF i \in live THEN cs[i] ELSE EmptyCache]
    /\ inflight' = BagOfAll(
          LAMBDA r : IF r.cache # 0 /\ r.cache \notin live
                     THEN [r EXCEPT !.cache = 0] ELSE r, calls)
\* cache[field] = value on the object a call holds
WriteCache(cs, r, field, value) ==
    IF r.cache = 0 THEN cs ELSE [cs EXCEPT ![r.cache][field] = value]
\* cache.sessionMessages.set(sessionId, value) on the object a call holds
WriteMessages(cs, r, sessionId, value) ==
    IF r.cache = 0 THEN cs
    ELSE [cs EXCEPT ![r.cache].sessionMessages[sessionId] = value]

\* A path as the sequence of its non-empty segments; '/' has none.
Root == <<>>
AppPath == <<"home", "user", "app">>

\* `ws_${Date.now()}_${Math.random()...}` of the k-th createWorkspace call:
\* the clock and the random suffix make the ids of two calls differ
WorkspaceId(k) == <<"ws", k>>
DefaultId == <<"default">>

\* name || path.split('/').filter(Boolean).pop() || 'Workspace'
dirName(path, name) ==
    IF name # None THEN name[1]
    ELSE IF path # Root THEN path[Len(path)]
    ELSE "Workspace"

\* the Workspace object createWorkspace builds; createdAt is Date.now(), the
\* clock of the id
NewWorkspace(k, path, name) ==
    [id |-> WorkspaceId(k), name |-> dirName(path, name), path |-> path,
     createdAt |-> k]

\* JSON.stringify and JSON.parse of workspace objects and arrays of them
\* (strings and numbers only) give back the value written, so a storage item
\* is modelled by the value: None (no item) or Some(value).

\* A pending AsyncStorage call of the workspace manager and the locals of
\* the function that awaits it: fn is that function, call and key the
\* storage operation, value what setItem writes, workspace the object
\* createWorkspace will return, id and current the argument of
\* deleteWorkspace and the currentWorkspace its closure holds.  A call of
\* setCurrentWorkspace that deleteWorkspace awaits carries both too.
StorageCall(fn, call, key, value) ==
    [fn |-> fn, call |-> call, key |-> key, value |-> value,
     workspace |-> None, id |-> None, current |-> None]

\* loadWorkspaces up to its first await
loadWorkspaces == StorageCall("loadWorkspaces", "getItem", "workspaces", None)

Init ==
    /\ workspaces = <<>>
    /\ currentWorkspace = None
    /\ workspacesLoading = TRUE
    /\ storedWorkspaces = None
    /\ storedCurrentWorkspace = None
    /\ storage = <<loadWorkspaces>>
    /\ created = 0
    /\ connected = FALSE
    /\ connecting = FALSE
    /\ error = null
    /\ clientRef = FALSE
    /\ caches = [i \in 1..(1 + MaxStaleCaches) |-> EmptyCache]
    /\ sessions = <<>>
    /\ sessionsLoading = FALSE
    /\ sessionsRefreshing = FALSE
    /\ sessionMessagesState = EmptyMap
    /\ sessionMessagesLoading = {}
    /\ sessionMessagesRefreshing = {}
    /\ projects = <<>>
    /\ projectsLoading = FALSE
    /\ activeSessionId = null
    /\ subs = EmptyBag
    /\ inflight = EmptyBag
    /\ isSending = FALSE
    /\ groupedSessions = <<>>


(***************************************************************************)
(* The fetch functions up to their first await.  Each yields the values of *)
(* the state it sets and the network calls it issues.                      *)
(***************************************************************************)
\* fetchSessions(isRefresh), with clientRef.current as given
fetchSessions(isRefresh, client) ==
    LET cached == caches[1].sessions IN
    IF ~client
    THEN [sessions |-> sessions, loading |-> sessionsLoading,
          refreshing |-> sessionsRefreshing, calls |-> EmptyBag]
    ELSE [sessions |-> IF cached # None /\ ~isRefresh
                       THEN cached[1] ELSE sessions,
          loading |-> IF isRefresh \/ cached # None
                      THEN sessionsLoading ELSE TRUE,
          refreshing |-> IF isRefresh \/ cached # None
                         THEN TRUE ELSE sessionsRefreshing,
          calls |-> SetToBag({Call("sessions", null, None)})]

\* fetchSessionMessages that, on a cache hit without isRefresh, publishes the
\* cached entry and returns without a network call
fetchSessionMessagesCacheOnly(sessionId, isRefresh) ==
    LET cachedMessages == caches[1].sessionMessages[sessionId] IN
    IF ~clientRef
    THEN [state |-> sessionMessagesState, loading |-> sessionMessagesLoading,
          refreshing |-> sessionMessagesRefreshing, calls |-> EmptyBag]
    ELSE IF cachedMessages # None /\ ~isRefresh
    THEN [state |-> [sessionMessagesState EXCEPT
                         ![sessionId] = cachedMessages],
          loading |-> sessionMessagesLoading,
          refreshing |-> sessionMessagesRefreshing, calls |-> EmptyBag]
    ELSE [state |-> sessionMessagesState,
          loading |-> IF isRefresh
                      THEN sessionMessagesLoading
                      ELSE sessionMessagesLoading \cup {sessionId},
          refreshing |-> IF isRefresh
                         THEN sessionMessagesRefreshing \cup {sessionId}
                         ELSE sessionMessagesRefreshing,
          calls |-> SetToBag({Call("messages", sessionId, cachedMessages)})]

\* fetchSessionMessages that picks the flag by the cache entry alone
fetchSessionMessagesFlagByEntry(sessionId, isRefresh) ==
    LET cachedMessages == caches[1].sessionMessages[sessionId] IN
    IF ~clientRef
    THEN [state |-> sessionMessagesState, loading |-> sessionMessagesLoading,
          refreshing |-> sessionMessagesRefreshing, calls |-> EmptyBag]
    ELSE [state |-> IF cachedMessages # None /\ ~isRefresh
                    THEN [sessionMessagesState EXCEPT
                              ![sessionId] = cachedMessages]
                    ELSE sessionMessagesState,
          loading |-> IF cachedMessages # None
                      THEN sessionMessagesLoading
                      ELSE sessionMessagesLoading \cup {sessionId},
          refreshing |-> IF cachedMessages # None
                         THEN sessionMessagesRefreshing \cup {sessionId}
                         ELSE sessionMessagesRefreshing,
          calls |-> SetToBag({Call("messages", sessionId, cachedMessages)})]

\* fetchSessionMessages(sessionId, isRefresh)
fetchSessionMessages(sessionId, isRefresh) ==
    LET cachedMessages == caches[1].sessionMessages[sessionId] IN
    IF ~clientRef
    THEN [state |-> sessionMessagesState, loading |-> sessionMessagesLoading,
          refreshing |-> sessionMessagesRefreshing, calls |-> EmptyBag]
    ELSE [state |-> IF cachedMessages # None /\ ~isRefresh
                    THEN [sessionMessagesState EXCEPT
                              ![sessionId] = cachedMessages]
                    ELSE sessionMessagesState,
          loading |-> IF isRefresh \/ cachedMessages # None
                      THEN sessionMessagesLoading
                      ELSE sessionMessagesLoading \cup {sessionId},
          refreshing |-> IF isRefresh \/ cachedMessages # None
                         THEN sessionMessagesRefreshing \cup {sessionId}
                         ELSE sessionMessagesRefreshing,
          calls |-> SetToBag({Call("messages", sessionId, cachedMessages)})]

\* fetchProjects(), with clientRef.current as given
fetchProjects(client) ==
    LET cached == caches[1].projects IN
    IF ~client
    THEN [projects |-> projects, loading |-> projectsLoading,
          calls |-> EmptyBag]
    ELSE [projects |-> IF cached # None THEN cached[1] ELSE projects,
          loading |-> IF cached # None THEN projectsLoading ELSE TRUE,
          calls |-> SetToBag({Call("projects", null, None)})]

\* no call of fetchSessionMessages
NoFetch == [state |-> sessionMessagesState, loading |-> sessionMessagesLoading,
            refreshing |-> sessionMessagesRefreshing, calls |-> EmptyBag]

\* the effect of a call of fetchSessionMessages on the messages and the calls
Fetched(f) ==
    /\ sessionMessagesState' = f.state
    /\ sessionMessagesLoading' = f.loading
    /\ sessionMessagesRefreshing' = f.refreshing
    /\ inflight' = inflight (+) f.calls

(***************************************************************************)
(* Connection.                                                             *)
(***************************************************************************)
\* connect(url) up to the await of the verification call
Connect ==
    /\ connecting' = TRUE
    /\ error' = null
    /\ inflight' = Add(inflight, Call("connect", null, None))
    /\ UNCHANGED <<connected, clientRef, caches, sessionsVars, messagesVars,
                   projectsVars, subVars>>
    /\ UNCHANGED <<wsVars, isSending, groupedSessions>>

\* the verification call succeeded; when connected turns true the two
\* useEffect hooks run fetchSessions() and fetchProjects()
ConnectSucceeds(r) ==
    /\ r \in BagToSet(inflight) /\ r.kind = "connect"
    /\ clientRef' = TRUE
    /\ connected' = TRUE
    /\ connecting' = FALSE
    /\ LET fs == IF connected
                 THEN fetchSessions(FALSE, FALSE)
                 ELSE fetchSessions(FALSE, TRUE)
           fp == IF connected THEN fetchProjects(FALSE)
                 ELSE fetchProjects(TRUE)
       IN /\ sessions' = fs.sessions
          /\ sessionsLoading' = fs.loading
          /\ sessionsRefreshing' = fs.refreshing
          /\ projects' = fp.projects
          /\ projectsLoading' = fp.loading
          /\ Commit(caches, (Remove(inflight, r) (+) fs.calls) (+) fp.calls)
    /\ UNCHANGED <<error, messagesVars, subVars>>
    /\ UNCHANGED <<wsVars, isSending, groupedSessions>>

\* what connect() resolves to: true from the try block, false from the catch
connectReturns(verified) == verified

\* a catch block that leaves connected as it is
ConnectFailsKeepsConnected(r, message) ==
    /\ r \in BagToSet(inflight) /\ r.kind = "connect"
    /\ error' = message
    /\ connecting' = FALSE
    /\ Commit(caches, Remove(inflight, r))
    /\ UNCHANGED <<connected, clientRef, sessionsVars, messagesVars,
                   projectsVars, subVars>>
    /\ UNCHANGED <<wsVars, isSending, groupedSessions>>

\* the verification call failed
ConnectFails(r, message) ==
    /\ r \in BagToSet(inflight) /\ r.kind = "connect"
    /\ error' = message
    /\ connected' = FALSE
    /\ connecting' = FALSE
    /\ Commit(caches, Remove(inflight, r))
    /\ UNCHANGED <<clientRef, sessionsVars, messagesVars, projectsVars,
                   subVars>>
    /\ UNCHANGED <<wsVars, isSending, groupedSessions>>

\* disconnect()
Disconnect ==
    /\ subs' = LiveSubs(BagOfAll(
                   LAMBDA sub : IF sub.ctrlRef
                                THEN [sub EXCEPT !.aborted = TRUE,
                                                 !.ctrlRef = FALSE]
                                ELSE sub, subs))
    /\ clientRef' = FALSE
    /\ connected' = FALSE
    /\ activeSessionId' = null
    /\ Commit(<<EmptyCache>> \o SubSeq(caches, 1, Len(caches) - 1),
              BagOfAll(LAMBDA r : [r EXCEPT !.cache = IF @ = 0 THEN 0
                                                      ELSE @ + 1], inflight))
    /\ sessions' = <<>>
    /\ sessionMessagesState' = EmptyMap
    /\ projects' = <<>>
    /\ UNCHANGED <<connecting, error, sessionsLoading, sessionsRefreshing,
                   sessionMessagesLoading, sessionMessagesRefreshing,
                   projectsLoading>>
    /\ UNCHANGED <<wsVars, isSending, groupedSessions>>

(***************************************************************************)
(* Sessions.                                                               *)
(***************************************************************************)
\* refreshSessions(): fetchSessions(true)
RefreshSessions ==
    /\ clientRef
    /\ LET fs == fetchSessions(TRUE, clientRef) IN
       /\ sessions' = fs.sessions
       /\ sessionsLoading' = fs.loading
       /\ sessionsRefreshing' = fs.refreshing
       /\ inflight' = inflight (+) fs.calls
    /\ UNCHANGED <<connVars, error, caches, messagesVars, projectsVars,
                   subVars>>
    /\ UNCHANGED <<wsVars, isSending, groupedSessions>>

\* sessionsWithPreviews of a fetchSessions whose previews are all settled
SessionsWithPreviews(r) ==
    [i \in 1..Len(r.sorted) |->
        WithPreview(r.sorted[i], r.previews[r.sorted[i].id][1])]

\* the end of fetchSessions once Promise.all has resolved: the cache object
\* the function holds gets the list, the list is published, the finally
\* block clears both flags
FinishSessions(r, old, cs, published) ==
    /\ Commit(WriteCache(cs, r, "sessions", Some(SessionsWithPreviews(r))),
              Remove(inflight, old))
    /\ sessions' = SessionsWithPreviews(r)
    /\ sessionsLoading' = FALSE
    /\ sessionsRefreshing' = FALSE
    /\ sessionMessagesState' = published

\* session.list() of a fetchSessions resolved with data: sort, then per
\* session take the preview from the held cache object or issue a
\* session.messages call; with clientRef.current null that call throws
\* inside the inner try and the preview is ''
SessionsListResponse(r, data) ==
    /\ r \in BagToSet(inflight) /\ r.kind = "sessions"
    /\ LET sorted == SortSessions(data)
           ids == {sorted[i].id : i \in 1..Len(sorted)}
           held == caches[r.cache].sessionMessages
           toFetch == {s \in ids : held[s] = None /\ clientRef}
           next == [r EXCEPT !.kind = "previews", !.sorted = sorted,
                       !.pending = toFetch,
                       !.previews = [s \in SessionIds |->
                           IF s \notin ids \/ s \in toFetch THEN None
                           ELSE IF held[s] # None
                                THEN Some(extractPreview(held[s][1]))
                                ELSE Some(<<>>)]]
       IN IF toFetch = {}
          THEN FinishSessions(next, r, caches, sessionMessagesState)
          ELSE /\ Commit(caches, Add(Remove(inflight, r), next))
               /\ UNCHANGED <<sessionsVars, sessionMessagesState>>
    /\ UNCHANGED <<connVars, error, sessionMessagesLoading,
                   sessionMessagesRefreshing, projectsVars, subVars>>
    /\ UNCHANGED <<wsVars, isSending, groupedSessions>>

\* session.list() of a fetchSessions rejected
SessionsListFails(r, message) ==
    /\ r \in BagToSet(inflight) /\ r.kind = "sessions"
    /\ error' = message
    /\ sessionsLoading' = FALSE
    /\ sessionsRefreshing' = FALSE
    /\ Commit(caches, Remove(inflight, r))
    /\ UNCHANGED <<connVars, sessions, messagesVars, projectsVars, subVars>>
    /\ UNCHANGED <<wsVars, isSending, groupedSessions>>

\* a session.messages call made for a preview resolved with messages
PreviewResponse(r, sessionId, messages) ==
    /\ r \in BagToSet(inflight) /\ r.kind = "previews"
    /\ sessionId \in r.pending
    /\ LET next == [r EXCEPT !.pending = @ \ {sessionId},
                       !.previews[sessionId] =
                           Some(extractPreview(messages))]
           cs == WriteMessages(caches, r, sessionId, Some(messages))
           published == [sessionMessagesState EXCEPT
                             ![sessionId] = Some(messages)]
       IN IF next.pending = {}
          THEN FinishSessions(next, r, cs, published)
          ELSE /\ Commit(cs, Add(Remove(inflight, r), next))
               /\ sessionMessagesState' = published
               /\ UNCHANGED sessionsVars
    /\ UNCHANGED <<connVars, error, sessionMessagesLoading,
                   sessionMessagesRefreshing, projectsVars, subVars>>
    /\ UNCHANGED <<wsVars, isSending, groupedSessions>>

\* an inner catch that rethrows: the listing fails as a whole
PreviewFailsListing(r, sessionId) ==
    /\ r \in BagToSet(inflight) /\ r.kind = "previews"
    /\ sessionId \in r.pending
    /\ error' = "Network request failed"
    /\ sessionsLoading' = FALSE
    /\ sessionsRefreshing' = FALSE
    /\ Commit(caches, Remove(inflight, r))
    /\ UNCHANGED <<connVars, sessions, messagesVars, projectsVars, subVars>>
    /\ UNCHANGED <<wsVars, isSending, groupedSessions>>

\* a session.messages call made for a preview rejected: preview ''
PreviewFails(r, sessionId) ==
    /\ r \in BagToSet(inflight) /\ r.kind = "previews"
    /\ sessionId \in r.pending
    /\ LET next == [r EXCEPT !.pending = @ \ {sessionId},
                       !.previews[sessionId] = Some(<<>>)]
       IN IF next.pending = {}
          THEN FinishSessions(next, r, caches, sessionMessagesState)
          ELSE /\ Commit(caches, Add(Remove(inflight, r), next))
               /\ UNCHANGED <<sessionsVars, sessionMessagesState>>
    /\ UNCHANGED <<connVars, error, sessionMessagesLoading,
                   sessionMessagesRefreshing, projectsVars, subVars>>
    /\ UNCHANGED <<wsVars, isSending, groupedSessions>>

(***************************************************************************)
(* Session messages.                                                       *)
(***************************************************************************)
\* refreshSessionMessages(sessionId): fetchSessionMessages(sessionId, true)
RefreshSessionMessages(sessionId) ==
    /\ clientRef
    /\ Fetched(fetchSessionMessages(sessionId, TRUE))
    /\ UNCHANGED <<connVars, error, caches, sessionsVars, projectsVars,
                   subVars>>
    /\ UNCHANGED <<wsVars, isSending, groupedSessions>>

\* a continuation that drops a response when the entry of the session is no
\* longer the one its fetch found
MessagesResponseGuarded(r, messages) ==
    /\ r \in BagToSet(inflight) /\ r.kind = "messages"
    /\ LET fresh == r.cache # 0
                    /\ caches[r.cache].sessionMessages[r.sid]
                          = r.cachedMessages
       IN /\ Commit(IF fresh
                    THEN WriteMessages(caches, r, r.sid, Some(messages))
                    ELSE caches,
                    Remove(inflight, r))
          /\ sessionMessagesState' =
                 IF fresh
                 THEN [sessionMessagesState EXCEPT ![r.sid] = Some(messages)]
                 ELSE sessionMessagesState
    /\ sessionMessagesLoading' = sessionMessagesLoading \ {r.sid}
    /\ sessionMessagesRefreshing' = sessionMessagesRefreshing \ {r.sid}
    /\ UNCHANGED <<connVars, error, sessionsVars, projectsVars, subVars>>
    /\ UNCHANGED <<wsVars, isSending, groupedSessions>>

\* session.messages() of a fetchSessionMessages resolved with messages
MessagesResponse(r, messages) ==
    /\ r \in BagToSet(inflight) /\ r.kind = "messages"
    /\ Commit(WriteMessages(caches, r, r.sid, Some(messages)),
              Remove(inflight, r))
    /\ sessionMessagesState' =
           [sessionMessagesState EXCEPT ![r.sid] = Some(messages)]
    /\ sessionMessagesLoading' = sessionMessagesLoading \ {r.sid}
    /\ sessionMessagesRefreshing' = sessionMessagesRefreshing \ {r.sid}
    /\ UNCHANGED <<connVars, error, sessionsVars, projectsVars, subVars>>
    /\ UNCHANGED <<wsVars, isSending, groupedSessions>>

\* a rejection that also evicts the entry of the session
MessagesFailsEvicts(r, message) ==
    /\ r \in BagToSet(inflight) /\ r.kind = "messages"
    /\ error' = message
    /\ Commit(WriteMessages(caches, r, r.sid, None), Remove(inflight, r))
    /\ sessionMessagesLoading' = sessionMessagesLoading \ {r.sid}
    /\ sessionMessagesRefreshing' = sessionMessagesRefreshing \ {r.sid}
    /\ UNCHANGED <<connVars, sessionsVars, sessionMessagesState,
                   projectsVars, subVars>>
    /\ UNCHANGED <<wsVars, isSending, groupedSessions>>

\* session.messages() of a fetchSessionMessages rejected
MessagesFails(r, message) ==
    /\ r \in BagToSet(inflight) /\ r.kind = "messages"
    /\ error' = message
    /\ Commit(caches, Remove(inflight, r))
    /\ sessionMessagesLoading' = sessionMessagesLoading \ {r.sid}
    /\ sessionMessagesRefreshing' = sessionMessagesRefreshing \ {r.sid}
    /\ UNCHANGED <<connVars, sessionsVars, sessionMessagesState,
                   projectsVars, subVars>>
    /\ UNCHANGED <<wsVars, isSending, groupedSessions>>

(***************************************************************************)
(* Projects.                                                               *)
(***************************************************************************)
\* refreshProjects(): fetchProjects()
RefreshProjects ==
    /\ clientRef
    /\ LET fp == fetchProjects(clientRef) IN
       /\ projects' = fp.projects
       /\ projectsLoading' = fp.loading
       /\ inflight' = inflight (+) fp.calls
    /\ UNCHANGED <<connVars, error, caches, sessionsVars, messagesVars,
                   subVars>>
    /\ UNCHANGED <<wsVars, isSending, groupedSessions>>

\* project.list() resolved with data
ProjectsResponse(r, data) ==
    /\ r \in BagToSet(inflight) /\ r.kind = "projects"
    /\ Commit(WriteCache(caches, r, "projects", Some(data)),
              Remove(inflight, r))
    /\ projects' = data
    /\ projectsLoading' = FALSE
    /\ UNCHANGED <<connVars, error, sessionsVars, messagesVars, subVars>>
    /\ UNCHANGED <<wsVars, isSending, groupedSessions>>

\* project.list() rejected
ProjectsFails(r, message) ==
    /\ r \in BagToSet(inflight) /\ r.kind = "projects"
    /\ error' = message
    /\ Commit(caches, Remove(inflight, r))
    /\ projectsLoading' = FALSE
    /\ UNCHANGED <<connVars, sessionsVars, messagesVars, projects, subVars>>
    /\ UNCHANGED <<wsVars, isSending, groupedSessions>>

(***************************************************************************)
(* Live updates.                                                           *)
(***************************************************************************)
\* eventData?.payload || eventData
Payload(e) == IF e.payload # None THEN e.payload[1] ELSE e

\* an extraction that misses properties.info.sessionID
EventSessionIdWithoutInfo(e) ==
    LET p == Payload(e) IN
    IF p.sessionID # null THEN p.sessionID
    ELSE IF p.sessionOfSession # null THEN p.sessionOfSession
    ELSE p.sessionOfPart

\* properties?.sessionID || properties?.session?.id ||
\* properties?.part?.sessionID || properties?.info?.sessionID
EventSessionId(e) ==
    LET p == Payload(e) IN
    IF p.sessionID # null THEN p.sessionID
    ELSE IF p.sessionOfSession # null THEN p.sessionOfSession
    ELSE IF p.sessionOfPart # null THEN p.sessionOfPart
    ELSE p.sessionOfInfo

\* the event types that refresh the messages
RefreshTypes == {"message.updated", "message.part.updated",
                 "session.updated", "session.status"}

\* if (eventSessionId === sessionId) and the event type is a relevant one
EventRefreshes(sub, e) ==
    /\ EventSessionId(e) = sub.sid
    /\ Payload(e).type \in RefreshTypes

\* a loop body without the check of the abort signal
streamEventUnchecked(sub, e) ==
    IF EventRefreshes(sub, e)
    THEN [break |-> FALSE, fetch |-> fetchSessionMessages(sub.sid, TRUE)]
    ELSE [break |-> FALSE, fetch |-> NoFetch]

\* the body of the for-await loop for one event: break when the controller
\* is aborted, else fetchSessionMessages(sessionId, true) for a relevant event
streamEvent(sub, e) ==
    IF sub.aborted THEN [break |-> TRUE, fetch |-> NoFetch]
    ELSE IF EventRefreshes(sub, e)
         THEN [break |-> FALSE, fetch |-> fetchSessionMessages(sub.sid, TRUE)]
         ELSE [break |-> FALSE, fetch |-> NoFetch]

\* an interval callback that fetches without isRefresh
pollingTickUnforced(sub) ==
    IF ~sub.aborted THEN fetchSessionMessages(sub.sid, FALSE) ELSE NoFetch

\* the setInterval callback
pollingTick(sub) ==
    IF ~sub.aborted THEN fetchSessionMessages(sub.sid, TRUE) ELSE NoFetch

\* a timeout callback without the check of the abort signal
backoffElapsedUnchecked(sub) ==
    IF clientRef THEN "opening" ELSE "ended"

\* the setTimeout callback of the catch block: the state of the stream task
backoffElapsed(sub) ==
    IF ~sub.aborted /\ clientRef THEN "opening" ELSE "ended"

\* replace one subscription object by its next state
Step(sub, next) == LiveSubs(Add(Remove(subs, sub), next))

\* sseAbortControllerRef.current.abort() and, with unref, = null
AbortCurrent(bag, unref) ==
    BagOfAll(LAMBDA sub : IF sub.ctrlRef
                          THEN [sub EXCEPT !.aborted = TRUE,
                                           !.ctrlRef = ~unref]
                          ELSE sub, bag)

\* a subscribeToSession whose initial fetch is a forced refresh
subscribeToSessionForced(sessionId) ==
    /\ activeSessionId' = sessionId
    /\ Fetched(fetchSessionMessages(sessionId, TRUE))
    /\ subs' = LiveSubs(Add(
          BagOfAll(LAMBDA sub : [sub EXCEPT !.ctrlRef = FALSE,
                                            !.pollRef = FALSE],
                   AbortCurrent(subs, FALSE)),
          NewSub(sessionId)))

\* subscribeToSession(sessionId): abort the previous controller, set the
\* active session, fetch the initial messages, start the stream task with a
\* new controller, and store a new interval in pollingIntervalRef
subscribeToSession(sessionId) ==
    /\ activeSessionId' = sessionId
    /\ Fetched(fetchSessionMessages(sessionId, FALSE))
    /\ subs' = LiveSubs(Add(
          BagOfAll(LAMBDA sub : [sub EXCEPT !.ctrlRef = FALSE,
                                            !.pollRef = FALSE],
                   AbortCurrent(subs, FALSE)),
          NewSub(sessionId)))

SubscribeToSession(sessionId) ==
    /\ clientRef
    /\ subscribeToSession(sessionId)
    /\ UNCHANGED <<connVars, error, caches, sessionsVars, projectsVars>>
    /\ UNCHANGED <<wsVars, isSending, groupedSessions>>

\* an unsubscribeFromSession that leaves the interval alone
UnsubscribedKeepsTimer(bag) ==
    LiveSubs(AbortCurrent(bag, TRUE))

\* the subscription objects after unsubscribeFromSession(): abort and drop
\* the controller, clearInterval and drop the interval
Unsubscribed(bag) ==
    LiveSubs(BagOfAll(
        LAMBDA sub : IF sub.pollRef
                     THEN [sub EXCEPT !.timer = FALSE, !.pollRef = FALSE]
                     ELSE sub,
        AbortCurrent(bag, TRUE)))

\* unsubscribeFromSession()
UnsubscribeFromSession ==
    /\ subs' = Unsubscribed(subs)
    /\ activeSessionId' = null
    /\ UNCHANGED <<connVars, error, caches, sessionsVars, messagesVars,
                   projectsVars, inflight>>
    /\ UNCHANGED <<wsVars, isSending, groupedSessions>>

\* the catch block of startSubscription
AfterStreamError(sub, name) ==
    IF name # "AbortError" /\ ~sub.aborted THEN "backoff" ELSE "ended"

\* event.subscribe() resolved: the task enters the for-await loop
StreamOpens(sub) ==
    /\ sub \in BagToSet(subs) /\ sub.stream = "opening"
    /\ subs' = Step(sub, [sub EXCEPT !.stream = "open"])
    /\ UNCHANGED <<connVars, error, caches, sessionsVars, messagesVars,
                   projectsVars, activeSessionId, inflight>>
    /\ UNCHANGED <<wsVars, isSending, groupedSessions>>

\* event.subscribe() rejected
StreamOpenFails(sub, name) ==
    /\ sub \in BagToSet(subs) /\ sub.stream = "opening"
    /\ subs' = Step(sub, [sub EXCEPT !.stream = AfterStreamError(sub, name)])
    /\ UNCHANGED <<connVars, error, caches, sessionsVars, messagesVars,
                   projectsVars, activeSessionId, inflight>>
    /\ UNCHANGED <<wsVars, isSending, groupedSessions>>

\* the stream yields an event
StreamEvent(sub, e) ==
    /\ sub \in BagToSet(subs) /\ sub.stream = "open"
    /\ LET h == streamEvent(sub, e) IN
       /\ subs' = IF h.break THEN Step(sub, [sub EXCEPT !.stream = "ended"])
                  ELSE subs
       /\ Fetched(h.fetch)
    /\ UNCHANGED <<connVars, error, caches, sessionsVars, projectsVars,
                   activeSessionId>>
    /\ UNCHANGED <<wsVars, isSending, groupedSessions>>

\* the stream ends: the for-await loop and the task complete
StreamEnds(sub) ==
    /\ sub \in BagToSet(subs) /\ sub.stream = "open"
    /\ subs' = Step(sub, [sub EXCEPT !.stream = "ended"])
    /\ UNCHANGED <<connVars, error, caches, sessionsVars, messagesVars,
                   projectsVars, activeSessionId, inflight>>
    /\ UNCHANGED <<wsVars, isSending, groupedSessions>>

\* reading the stream throws
StreamErrors(sub, name) ==
    /\ sub \in BagToSet(subs) /\ sub.stream = "open"
    /\ subs' = Step(sub, [sub EXCEPT !.stream = AfterStreamError(sub, name)])
    /\ UNCHANGED <<connVars, error, caches, sessionsVars, messagesVars,
                   projectsVars, activeSessionId, inflight>>
    /\ UNCHANGED <<wsVars, isSending, groupedSessions>>

\* the 3000 ms timeout set by the catch block fires
BackoffFires(sub) ==
    /\ sub \in BagToSet(subs) /\ sub.stream = "backoff"
    /\ subs' = Step(sub, [sub EXCEPT !.stream = backoffElapsed(sub)])
    /\ UNCHANGED <<connVars, error, caches, sessionsVars, messagesVars,
                   projectsVars, activeSessionId, inflight>>
    /\ UNCHANGED <<wsVars, isSending, groupedSessions>>

\* the 2000 ms interval of a subscription fires
PollTick(sub) ==
    /\ sub \in BagToSet(subs) /\ sub.timer
    /\ Fetched(pollingTick(sub))
    /\ UNCHANGED <<connVars, error, caches, sessionsVars, projectsVars,
                   subVars>>
    /\ UNCHANGED <<wsVars, isSending, groupedSessions>>

(***************************************************************************)
(* Sending.                                                                *)
(***************************************************************************)
\* the negation of the guard of sendPrompt:
\* if (!clientRef.current || !text.trim()) return false
sendPromptAccepts(text) == clientRef /\ Trim(text) # <<>>

\* what sendPrompt resolves to: false from the guard and the catch block,
\* true from the try block
sendPromptReturns(accepted, sent) == accepted /\ sent

\* sendPrompt(sessionId, text) up to the await of session.prompt, or to the
\* return of the guard
SendPrompt(sessionId, text) ==
    IF sendPromptAccepts(text)
    THEN /\ isSending' = TRUE
         /\ inflight' = Add(inflight, Call("prompt", sessionId, None))
         /\ UNCHANGED <<connVars, error, caches, sessionsVars, messagesVars,
                        projectsVars, subVars, wsVars, groupedSessions>>
    ELSE UNCHANGED vars

\* a finally block that leaves isSending as it is
PromptFailsKeepsSending(r, message) ==
    /\ r \in BagToSet(inflight) /\ r.kind = "prompt"
    /\ error' = message
    /\ Commit(caches, Remove(inflight, r))
    /\ UNCHANGED <<connVars, sessionsVars, messagesVars, projectsVars,
                   subVars, wsVars, isSending, groupedSessions>>

\* a try block that also resets the error
PromptSentClearsError(r) ==
    /\ r \in BagToSet(inflight) /\ r.kind = "prompt"
    /\ LET f == fetchSessionMessages(r.sid, TRUE) IN
       /\ sessionMessagesState' = f.state
       /\ sessionMessagesLoading' = f.loading
       /\ sessionMessagesRefreshing' = f.refreshing
       /\ Commit(caches, Remove(inflight, r) (+) f.calls)
    /\ error' = null
    /\ isSending' = FALSE
    /\ UNCHANGED <<connVars, sessionsVars, projectsVars, subVars, wsVars,
                   groupedSessions>>

\* session.prompt() resolved: fetchSessionMessages(sessionId, true), then
\* the finally block
PromptSent(r) ==
    /\ r \in BagToSet(inflight) /\ r.kind = "prompt"
    /\ LET f == fetchSessionMessages(r.sid, TRUE) IN
       /\ sessionMessagesState' = f.state
       /\ sessionMessagesLoading' = f.loading
       /\ sessionMessagesRefreshing' = f.refreshing
       /\ Commit(caches, Remove(inflight, r) (+) f.calls)
    /\ isSending' = FALSE
    /\ UNCHANGED <<connVars, error, sessionsVars, projectsVars, subVars,
                   wsVars, groupedSessions>>

\* session.prompt() rejected: the catch block, then the finally block
PromptFails(r, message) ==
    /\ r \in BagToSet(inflight) /\ r.kind = "prompt"
    /\ error' = message
    /\ isSending' = FALSE
    /\ Commit(caches, Remove(inflight, r))
    /\ UNCHANGED <<connVars, sessionsVars, messagesVars, projectsVars,
                   subVars, wsVars, groupedSessions>>

(***************************************************************************)
(* The sessions screen (src/screens/SessionsScreen.tsx).                   *)
(***************************************************************************)
\* the first pass: parentSessions, the sessions without parentID in the
\* order of the list
RECURSIVE ParentSessions(_)
ParentSessions(list) ==
    IF list = <<>> THEN <<>>
    ELSE IF Head(list).parentID = None
         THEN <<Head(list)>> \o ParentSessions(Tail(list))
         ELSE ParentSessions(Tail(list))

\* the first pass: childrenMap.get(id), the sessions whose parentID is id in
\* the order of the list; <<>> stands for undefined
RECURSIVE ChildrenMap(_, _)
ChildrenMap(list, id) ==
    IF list = <<>> THEN <<>>
    ELSE IF Head(list).parentID = Some(id)
         THEN <<Head(list)>> \o ChildrenMap(Tail(list), id)
         ELSE ChildrenMap(Tail(list), id)

\* the second pass on one parent: children is set, sorted, when the map has
\* an entry for the parent, and left undefined (None) otherwise
WithChildren(parent, list) ==
    LET children == ChildrenMap(list, parent.id) IN
    [id |-> parent.id, parentID |-> parent.parentID,
     updatedAt |-> parent.updatedAt, createdAt |-> parent.createdAt,
     preview |-> parent.preview,
     children |-> IF children = <<>> THEN None
                  ELSE Some(SortSessions(children))]

\* the value of useMemo groupedSessions for the prop sessions
GroupSessions(list) ==
    LET parentSessions == ParentSessions(list) IN
    [i \in 1..Len(parentSessions) |-> WithChildren(parentSessions[i], list)]

\* SessionsScreen renders: the memo is computed from the prop
RenderSessions ==
    /\ groupedSessions' = GroupSessions(sessions)
    /\ UNCHANGED <<connVars, error, caches, sessionsVars, messagesVars,
                   projectsVars, subVars, inflight, wsVars, isSending>>

(***************************************************************************)
(* Workspaces.  The workspace manager is the code the plan                 *)
(* docs/plans/2026-02-28-workspace-implementation.md lists for the         *)
(* provider; the screens app/(tabs)/workspaces.tsx and the create screen   *)
(* call it.  AsyncStorage runs its calls one after the other, in the order *)
(* they were made: storage is a queue and its head settles first.          *)
(***************************************************************************)
idsOf(list) == {list[i].id : i \in 1..Len(list)}

\* workspaces.filter(w => w.id !== id)
RECURSIVE Without(_, _)
Without(list, id) ==
    IF list = <<>> THEN <<>>
    ELSE IF Head(list).id # id THEN <<Head(list)>> \o Without(Tail(list), id)
    ELSE Without(Tail(list), id)

\* the defaultWorkspace item of the workspaces screen
defaultWorkspace ==
    [id |-> DefaultId, name |-> "Default", path |-> Root, isDefault |-> TRUE]
\* { ...w, isDefault: false }
Item(w) == [id |-> w.id, name |-> w.name, path |-> w.path,
            isDefault |-> FALSE]
\* allWorkspaces: the list the workspaces screen displays
allWorkspaces(list) ==
    <<defaultWorkspace>> \o [i \in 1..Len(list) |-> Item(list[i])]

StorageRoom == Len(storage) < MaxStorage
Settling(fn, call, key) ==
    /\ storage # <<>>
    /\ Head(storage).fn = fn
    /\ Head(storage).call = call
    /\ Head(storage).key = key

\* setCurrentWorkspace(workspace) up to its await: the new selection and the
\* storage call
setCurrentWorkspace(workspace) ==
    [currentWorkspace |-> workspace,
     call |-> IF workspace # None
              THEN StorageCall("setCurrentWorkspace", "setItem",
                               "currentWorkspace", workspace)
              ELSE StorageCall("setCurrentWorkspace", "removeItem",
                               "currentWorkspace", None)]

\* loadWorkspaces after getItem('@workspaces')
WorkspacesLoaded ==
    /\ Settling("loadWorkspaces", "getItem", "workspaces")
    /\ workspaces' = IF storedWorkspaces # None THEN storedWorkspaces[1]
                     ELSE <<>>
    /\ storage' = Append(Tail(storage),
                         StorageCall("loadWorkspaces", "getItem",
                                     "currentWorkspace", None))
    /\ UNCHANGED <<currentWorkspace, workspacesLoading, storedWorkspaces,
                   storedCurrentWorkspace, created, providerVars>>

\* loadWorkspaces after getItem('@currentWorkspace')
CurrentWorkspaceLoaded ==
    /\ Settling("loadWorkspaces", "getItem", "currentWorkspace")
    /\ currentWorkspace' = IF storedCurrentWorkspace # None
                           THEN storedCurrentWorkspace ELSE currentWorkspace
    /\ workspacesLoading' = FALSE
    /\ storage' = Tail(storage)
    /\ UNCHANGED <<workspaces, storedWorkspaces, storedCurrentWorkspace,
                   created, providerVars>>

\* handleSelectWorkspace(item) of the workspaces screen
HandleSelectWorkspace(item) ==
    LET set == setCurrentWorkspace(Some([id |-> item.id, name |-> item.name,
                                         path |-> item.path,
                                         createdAt |-> 0]))
    IN /\ currentWorkspace' = set.currentWorkspace
       /\ storage' = Append(storage, set.call)
       /\ UNCHANGED <<workspaces, workspacesLoading, storedWorkspaces,
                      storedCurrentWorkspace, created, providerVars>>

\* setCurrentWorkspace after setItem or removeItem; a deleteWorkspace that
\* awaits it returns
CurrentWorkspaceStored ==
    /\ \/ Settling("setCurrentWorkspace", "setItem", "currentWorkspace")
       \/ Settling("setCurrentWorkspace", "removeItem", "currentWorkspace")
    /\ storedCurrentWorkspace' = Head(storage).value
    /\ storage' = Tail(storage)
    /\ UNCHANGED <<workspaces, currentWorkspace, workspacesLoading,
                   storedWorkspaces, created, providerVars>>

\* createWorkspace(path, name) up to its await, called by
\* handleSelectDirectory of the create screen
CreateWorkspace(path, name) ==
    LET workspace == NewWorkspace(created + 1, path, name)
        updated == Append(workspaces, workspace)
    IN /\ created' = created + 1
       /\ workspaces' = updated
       /\ storage' = Append(storage,
              [StorageCall("createWorkspace", "setItem", "workspaces",
                           Some(updated))
                  EXCEPT !.workspace = Some(workspace)])
       /\ UNCHANGED <<currentWorkspace, workspacesLoading, storedWorkspaces,
                      storedCurrentWorkspace, providerVars>>

\* createWorkspace after setItem: it returns the workspace, and
\* handleSelectDirectory goes on to setCurrentWorkspace(workspace)
WorkspaceCreated ==
    /\ Settling("createWorkspace", "setItem", "workspaces")
    /\ storedWorkspaces' = Head(storage).value
    /\ LET set == setCurrentWorkspace(Head(storage).workspace)
       IN /\ currentWorkspace' = set.currentWorkspace
          /\ storage' = Append(Tail(storage), set.call)
    /\ UNCHANGED <<workspaces, workspacesLoading, storedCurrentWorkspace,
                   created, providerVars>>

\* deleteWorkspace(id) up to its await
DeleteWorkspace(id) ==
    LET updated == Without(workspaces, id)
    IN /\ workspaces' = updated
       /\ storage' = Append(storage,
              [StorageCall("deleteWorkspace", "setItem", "workspaces",
                           Some(updated))
                  EXCEPT !.id = Some(id), !.current = currentWorkspace])
       /\ UNCHANGED <<currentWorkspace, workspacesLoading, storedWorkspaces,
                      storedCurrentWorkspace, created, providerVars>>

\* the deleteWorkspace call handleDeleteWorkspace(item) of the workspaces
\* screen makes once the alert is confirmed: none for the Default item
deleteRequestAlways(item) == Some(item.id)
deleteRequest(item) == IF item.isDefault THEN None ELSE Some(item.id)
HandleDeleteWorkspace(item) ==
    /\ deleteRequest(item) # None
    /\ DeleteWorkspace(deleteRequest(item)[1])

wasCurrentNever(call) == FALSE
\* currentWorkspace?.id === id with the currentWorkspace of the closure
wasCurrent(call) == call.current # None /\ call.current[1].id = call.id[1]

\* deleteWorkspace after setItem: it clears the selection when the
\* workspace was the current one, and returns otherwise
WorkspaceDeleted ==
    /\ Settling("deleteWorkspace", "setItem", "workspaces")
    /\ storedWorkspaces' = Head(storage).value
    /\ IF wasCurrent(Head(storage))
       THEN LET set == setCurrentWorkspace(None)
            IN /\ currentWorkspace' = set.currentWorkspace
               /\ storage' = Append(Tail(storage),
                      [set.call EXCEPT !.id = Head(storage).id,
                                       !.current = Head(storage).current])
       ELSE /\ storage' = Tail(storage)
            /\ UNCHANGED currentWorkspace
    /\ UNCHANGED <<workspaces, workspacesLoading, storedCurrentWorkspace,
                   created, providerVars>>

\* The storage call at the head rejects.  loadWorkspaces catches and ends
\* loading; in the other functions the rejection goes to the caller, which
\* does nothing more.
StorageRejects ==
    /\ storage # <<>>
    /\ storage' = Tail(storage)
    /\ workspacesLoading' = IF Head(storage).fn = "loadWorkspaces" THEN FALSE
                            ELSE workspacesLoading
    /\ UNCHANGED <<workspaces, currentWorkspace, storedWorkspaces,
                   storedCurrentWorkspace, created, providerVars>>

\* The app is killed and started again: the React state and the pending
\* calls are gone, the storage items stay, the provider mounts and its
\* effect starts loadWorkspaces.
Restart ==
    /\ workspaces' = <<>>
    /\ currentWorkspace' = None
    /\ workspacesLoading' = TRUE
    /\ storage' = <<loadWorkspaces>>
    /\ connected' = FALSE
    /\ connecting' = FALSE
    /\ error' = null
    /\ clientRef' = FALSE
    /\ caches' = [i \in 1..(1 + MaxStaleCaches) |-> EmptyCache]
    /\ sessions' = <<>>
    /\ sessionsLoading' = FALSE
    /\ sessionsRefreshing' = FALSE
    /\ sessionMessagesState' = EmptyMap
    /\ sessionMessagesLoading' = {}
    /\ sessionMessagesRefreshing' = {}
    /\ projects' = <<>>
    /\ projectsLoading' = FALSE
    /\ activeSessionId' = null
    /\ subs' = EmptyBag
    /\ inflight' = EmptyBag
    /\ isSending' = FALSE
    /\ groupedSessions' = <<>>
    /\ UNCHANGED <<storedWorkspaces, storedCurrentWorkspace, created>>

\* headers['x-opencode-directory'] of a request for a workspace path
directoryHeader(path) == IF path # Root THEN Some(path) ELSE None

\* a pending session.list or session.create call of the workspace functions;
\* it holds no cache object
WorkspaceCall(kind, path) ==
    [Call(kind, null, None) EXCEPT !.cache = 0,
                                   !.directory = directoryHeader(path)]

\* refreshSessionsWithWorkspace(currentWorkspace.path) up to its await,
\* called by the effect and the pull-to-refresh of the sessions screen
RefreshSessionsWithWorkspace ==
    /\ currentWorkspace # None
    /\ clientRef
    /\ sessionsRefreshing' = TRUE
    /\ inflight' = Add(inflight, WorkspaceCall("workspaceSessions",
                                               currentWorkspace[1].path))
    /\ UNCHANGED <<connVars, error, caches, sessions, sessionsLoading,
                   messagesVars, projectsVars, subVars, wsVars,
                   isSending, groupedSessions>>

\* refreshSessionsWithWorkspace after session.list
WorkspaceSessionsResponse(r, data) ==
    /\ r \in BagToSet(inflight) /\ r.kind = "workspaceSessions"
    /\ sessions' = data
    /\ sessionsRefreshing' = FALSE
    /\ Commit(caches, Remove(inflight, r))
    /\ UNCHANGED <<connVars, error, sessionsLoading, messagesVars,
                   projectsVars, subVars, wsVars,
                   isSending, groupedSessions>>

\* refreshSessionsWithWorkspace: session.list rejected
WorkspaceSessionsFails(r, message) ==
    /\ r \in BagToSet(inflight) /\ r.kind = "workspaceSessions"
    /\ error' = message
    /\ sessionsRefreshing' = FALSE
    /\ Commit(caches, Remove(inflight, r))
    /\ UNCHANGED <<connVars, sessions, sessionsLoading, messagesVars,
                   projectsVars, subVars, wsVars,
                   isSending, groupedSessions>>

\* createSessionWithWorkspace() up to its await, called by the New button of
\* the sessions screen
CreateSessionWithWorkspace ==
    /\ currentWorkspace # None
    /\ clientRef
    /\ inflight' = Add(inflight, WorkspaceCall("createSession",
                                               currentWorkspace[1].path))
    /\ UNCHANGED <<connVars, error, caches, sessionsVars, messagesVars,
                   projectsVars, subVars, wsVars,
                   isSending, groupedSessions>>

\* createSessionWithWorkspace after session.create: it refreshes the list
\* for the path of the workspace its closure holds
SessionCreated(r) ==
    /\ r \in BagToSet(inflight) /\ r.kind = "createSession"
    /\ IF clientRef
       THEN /\ sessionsRefreshing' = TRUE
            /\ Commit(caches,
                      Add(Remove(inflight, r),
                          [r EXCEPT !.kind = "workspaceSessions"]))
       ELSE /\ UNCHANGED sessionsRefreshing
            /\ Commit(caches, Remove(inflight, r))
    /\ UNCHANGED <<connVars, error, sessions, sessionsLoading, messagesVars,
                   projectsVars, subVars, wsVars,
                   isSending, groupedSessions>>

\* createSessionWithWorkspace: session.create rejected; the error is thrown
\* to the screen
SessionCreateFails(r) ==
    /\ r \in BagToSet(inflight) /\ r.kind = "createSession"
    /\ Commit(caches, Remove(inflight, r))
    /\ UNCHANGED <<connVars, error, sessionsVars, messagesVars,
                   projectsVars, subVars, wsVars,
                   isSending, groupedSessions>>

(***************************************************************************)
(* Specification.                                                          *)
(***************************************************************************)
\* room for one more network call started by the user, the stream or a timer
Room == BagCardinality(inflight) < MaxInFlight
\* room for one more replaced cache object
StaleRoom == \A r \in BagToSet(inflight) : r.cache < Len(caches)

\* the answers of the server in the runs of Spec
OneSessionList == {<<SessA>>}
OneMessageList == {<<MsgUser, MsgTool>>}
OneProjectList == {<<[id |-> "p1"]>>}
OneErrorMessage == {"Network request failed"}

\* The cache layer: connect and disconnect, the fetches of the three kinds
\* and their answers, for one session and one answer of each kind; the chat
\* screen mounts and unmounts; the event stream and the timers are silent.
Next ==
    \/ Room /\ Connect
    \/ \E r \in BagToSet(inflight) : ConnectSucceeds(r)
    \/ \E r \in BagToSet(inflight), m \in ErrorMessages : ConnectFails(r, m)
    \/ StaleRoom /\ Disconnect
    \/ Room /\ RefreshSessions
    \/ \E r \in BagToSet(inflight), d \in OneSessionList :
          SessionsListResponse(r, d)
    \/ \E r \in BagToSet(inflight), m \in ErrorMessages :
          SessionsListFails(r, m)
    \/ \E r \in BagToSet(inflight), s \in SessionIds, d \in OneMessageList :
          PreviewResponse(r, s, d)
    \/ \E r \in BagToSet(inflight), s \in SessionIds : PreviewFails(r, s)
    \/ Room /\ RefreshSessionMessages("s1")
    \/ \E r \in BagToSet(inflight), d \in OneMessageList :
          MessagesResponse(r, d)
    \/ \E r \in BagToSet(inflight), m \in ErrorMessages : MessagesFails(r, m)
    \/ Room /\ RefreshProjects
    \/ \E r \in BagToSet(inflight), d \in OneProjectList :
          ProjectsResponse(r, d)
    \/ \E r \in BagToSet(inflight), m \in ErrorMessages : ProjectsFails(r, m)
    \/ Room /\ BagCardinality(subs) < MaxSubs /\ SubscribeToSession("s1")
    \/ UnsubscribeFromSession

Spec == Init /\ [][Next]_vars

\* the events the server sends in the runs of SpecLive
Delivered ==
    {Direct([type |-> "message.updated", sessionID |-> "s1",
             sessionOfSession |-> null, sessionOfPart |-> null,
             sessionOfInfo |-> null]),
     Direct([type |-> "session.status", sessionID |-> null,
             sessionOfSession |-> null, sessionOfPart |-> null,
             sessionOfInfo |-> "s2"]),
     Direct([type |-> "server.connected", sessionID |-> null,
             sessionOfSession |-> null, sessionOfPart |-> null,
             sessionOfInfo |-> null])}

\* Live updates: the chat screen mounts for either session and unmounts, the
\* stream opens, yields events, ends and fails, the timers fire; the server
\* answers with empty session and project lists and with messages or a
\* failure to a fetch of messages; maxSubs
\* subscription objects may be alive at once.
LiveNext(maxSubs) ==
    \/ Room /\ Connect
    \/ \E r \in BagToSet(inflight) : ConnectSucceeds(r)
    \/ StaleRoom /\ Disconnect
    \/ \E r \in BagToSet(inflight) : SessionsListResponse(r, <<>>)
    \/ \E r \in BagToSet(inflight), d \in OneMessageList :
          MessagesResponse(r, d)
    \/ \E r \in BagToSet(inflight), m \in OneErrorMessage :
          MessagesFails(r, m)
    \/ \E r \in BagToSet(inflight) : ProjectsResponse(r, <<>>)
    \/ /\ Room
       /\ BagCardinality(subs) < maxSubs
       /\ \E s \in SessionIds : SubscribeToSession(s)
    \/ UnsubscribeFromSession
    \/ \E sub \in BagToSet(subs) : StreamOpens(sub)
    \/ \E sub \in BagToSet(subs), n \in ErrorNames : StreamOpenFails(sub, n)
    \/ \E sub \in BagToSet(subs), e \in Delivered :
          /\ Room \/ sub.aborted \/ ~EventRefreshes(sub, e)
          /\ StreamEvent(sub, e)
    \/ \E sub \in BagToSet(subs) : StreamEnds(sub)
    \/ \E sub \in BagToSet(subs), n \in ErrorNames : StreamErrors(sub, n)
    \/ \E sub \in BagToSet(subs) : BackoffFires(sub)
    \/ \E sub \in BagToSet(subs) :
          /\ Room \/ sub.aborted
          /\ PollTick(sub)

NextLive == LiveNext(MaxSubs)
SpecLive == Init /\ [][NextLive]_vars

\* the same with room for the subscription object of one more
\* subscribeToSession
NextSwitch == LiveNext(MaxSubs + 1)
SpecSwitch == Init /\ [][NextSwitch]_vars


\* Connection with overlap: connect() may be called again while an earlier
\* call still awaits its verification (the automatic connect of the root
\* layout and the button of the connect screen); the server answers the
\* fetches of the connected effects with empty lists.
NextOverlap ==
    \/ BagCardinality(inflight) < MaxInFlight + 1 /\ Connect
    \/ \E r \in BagToSet(inflight) : ConnectSucceeds(r)
    \/ \E r \in BagToSet(inflight), m \in OneErrorMessage : ConnectFails(r, m)
    \/ StaleRoom /\ Disconnect
    \/ \E r \in BagToSet(inflight) : SessionsListResponse(r, <<>>)
    \/ \E r \in BagToSet(inflight) : ProjectsResponse(r, <<>>)
SpecOverlap == Init /\ [][NextOverlap]_vars

\* the directories picked on the create screen: path and name
Directories == {<<AppPath, None>>, <<AppPath, Some("api")>>}

\* The workspace manager: the workspaces screen selects and deletes the items
\* it displays, the create screen creates a workspace and selects it, the
\* storage calls settle in order or reject, the app restarts.
NextWorkspaces ==
    \/ WorkspacesLoaded
    \/ CurrentWorkspaceLoaded
    \/ /\ StorageRoom
       /\ \E i \in 1..(Len(workspaces) + 1) :
             HandleSelectWorkspace(allWorkspaces(workspaces)[i])
    \/ CurrentWorkspaceStored
    \/ /\ StorageRoom
       /\ created < MaxWorkspaces
       /\ \E dir \in Directories : CreateWorkspace(dir[1], dir[2])
    \/ WorkspaceCreated
    \/ /\ StorageRoom
       /\ \E i \in 1..(Len(workspaces) + 1) :
             HandleDeleteWorkspace(allWorkspaces(workspaces)[i])
    \/ WorkspaceDeleted
    \/ StorageRejects
    \/ Restart
SpecWorkspaces == Init /\ [][NextWorkspaces]_vars

\* Sessions of a workspace: a workspace is created, the Default item or a
\* created one is selected, the app connects, and the sessions are listed
\* by the provider's own fetch and by the workspace functions, and created.
NextDirectory ==
    \/ WorkspacesLoaded
    \/ CurrentWorkspaceLoaded
    \/ /\ StorageRoom
       /\ \E i \in 1..(Len(workspaces) + 1) :
             HandleSelectWorkspace(allWorkspaces(workspaces)[i])
    \/ CurrentWorkspaceStored
    \/ /\ StorageRoom
       /\ created < MaxWorkspaces - 1
       /\ CreateWorkspace(AppPath, None)
    \/ WorkspaceCreated
    \/ Room /\ Connect
    \/ \E r \in BagToSet(inflight) : ConnectSucceeds(r)
    \/ Room /\ RefreshSessions
    \/ \E r \in BagToSet(inflight), d \in OneSessionList :
          SessionsListResponse(r, d)
    \/ \E r \in BagToSet(inflight), s \in SessionIds, d \in OneMessageList :
          PreviewResponse(r, s, d)
    \/ \E r \in BagToSet(inflight) :
          ProjectsResponse(r, <<>>)
    \/ Room /\ RefreshSessionsWithWorkspace
    \/ \E r \in BagToSet(inflight), d \in OneSessionList :
          WorkspaceSessionsResponse(r, d)
    \/ \E r \in BagToSet(inflight), m \in OneErrorMessage :
          WorkspaceSessionsFails(r, m)
    \/ Room /\ CreateSessionWithWorkspace
    \/ \E r \in BagToSet(inflight) : SessionCreated(r)
    \/ \E r \in BagToSet(inflight) : SessionCreateFails(r)
SpecDirectory == Init /\ [][NextDirectory]_vars

\* sessions without any date, with the key of SessA, and with the key '10',
\* which as a string is below '2' and '3'
SessNoDate == [id |-> "s1", updatedAt |-> <<>>, createdAt |-> <<>>]
SessTie == [id |-> "s2", updatedAt |-> <<2>>, createdAt |-> <<9>>]
SessTen == [id |-> "s1", updatedAt |-> <<1, 0>>, createdAt |-> <<>>]
\* the answers of session.list in the runs of SpecSort: no session, one, or
\* two in either order
SortedResponses ==
    LET first == {SessA, SessNoDate, SessTen}
        second == {SessB, SessTie}
    IN {<<>>} \cup {<<a>> : a \in first \cup second}
       \cup {<<a, b>> : a \in first, b \in second}
       \cup {<<b, a>> : a \in first, b \in second}

\* The session listing: the app connects, the list is fetched and
\* refreshed, the server answers with any of the lists above or
\* a failure, and the preview calls are answered or fail.
NextSort ==
    \/ Room /\ Connect
    \/ \E r \in BagToSet(inflight) : ConnectSucceeds(r)
    \/ Room /\ RefreshSessions
    \/ \E r \in BagToSet(inflight), d \in SortedResponses :
          SessionsListResponse(r, d)
    \/ \E r \in BagToSet(inflight), m \in OneErrorMessage :
          SessionsListFails(r, m)
    \/ \E r \in BagToSet(inflight), s \in SessionIds,
             d \in OneMessageList : PreviewResponse(r, s, d)
    \/ \E r \in BagToSet(inflight), s \in SessionIds : PreviewFails(r, s)
    \/ \E r \in BagToSet(inflight) : ProjectsResponse(r, <<>>)
SpecSort == Init /\ [][NextSort]_vars

\* room for a call that overlaps the calls in flight
RaceRoom == BagCardinality(inflight) < MaxInFlight + 1
\* the texts typed into the chat input
Texts == {TextHi, TextBlank}

\* Overlapping calls on the chat screen: the app connects and disconnects,
\* the chat screen of session s1 mounts and unmounts, its timer fires, the
\* user refreshes the messages and sends prompts while earlier calls are
\* still pending; the server answers a fetch of messages with either list
\* or a failure and the other fetches with empty lists.
NextRace ==
    \/ Room /\ Connect
    \/ \E r \in BagToSet(inflight) : ConnectSucceeds(r)
    \/ \E r \in BagToSet(inflight), m \in OneErrorMessage : ConnectFails(r, m)
    \/ StaleRoom /\ Disconnect
    \/ \E r \in BagToSet(inflight) : SessionsListResponse(r, <<>>)
    \/ \E r \in BagToSet(inflight) : ProjectsResponse(r, <<>>)
    \/ RaceRoom /\ RefreshSessionMessages("s1")
    \/ \E r \in BagToSet(inflight), d \in MessageLists :
          MessagesResponse(r, d)
    \/ \E r \in BagToSet(inflight), m \in OneErrorMessage :
          MessagesFails(r, m)
    \/ /\ RaceRoom
       /\ BagCardinality(subs) < MaxSubs
       /\ SubscribeToSession("s1")
    \/ UnsubscribeFromSession
    \/ \E sub \in BagToSet(subs) :
          /\ RaceRoom \/ sub.aborted
          /\ PollTick(sub)
    \/ \E t \in Texts : RaceRoom /\ SendPrompt("s1", t)
    \/ \E r \in BagToSet(inflight) : PromptSent(r)
    \/ \E r \in BagToSet(inflight), m \in OneErrorMessage : PromptFails(r, m)
SpecRace == Init /\ [][NextRace]_vars

\* The sessions a listing may publish, as the prop of SessionsScreen: up to
\* three sessions with different ids, each with no parent, with another of
\* the three as parent (in the list or not), or with a parent that is not
\* listed at all.
SessionsProps ==
    LET ids == {"s1", "s2", "s3"}
        all == [id : ids,
                parentID : {None} \cup {Some(p) : p \in ids \cup {"s0"}},
                updatedAt : {<<1>>, <<2>>}, createdAt : {<<>>},
                preview : {<<>>}]
        values == {v \in all : v.parentID # Some(v.id)}
    IN {<<>>} \cup {<<a>> : a \in values}
       \cup {l \in {<<a, b>> : a, b \in values} : l[1].id # l[2].id}
       \cup {l \in {<<a, b, c>> : a, b, c \in values} :
                 Cardinality({l[1].id, l[2].id, l[3].id}) = 3}

\* the screen is mounted with one of these lists as its prop
InitGroup ==
    /\ sessions \in SessionsProps
    /\ groupedSessions = <<>>
    /\ workspaces = <<>>
    /\ currentWorkspace = None
    /\ workspacesLoading = TRUE
    /\ storedWorkspaces = None
    /\ storedCurrentWorkspace = None
    /\ storage = <<loadWorkspaces>>
    /\ created = 0
    /\ connected = FALSE
    /\ connecting = FALSE
    /\ error = null
    /\ clientRef = FALSE
    /\ caches = [i \in 1..(1 + MaxStaleCaches) |-> EmptyCache]
    /\ sessionsLoading = FALSE
    /\ sessionsRefreshing = FALSE
    /\ sessionMessagesState = EmptyMap
    /\ sessionMessagesLoading = {}
    /\ sessionMessagesRefreshing = {}
    /\ projects = <<>>
    /\ projectsLoading = FALSE
    /\ activeSessionId = null
    /\ subs = EmptyBag
    /\ inflight = EmptyBag
    /\ isSending = FALSE

\* The grouping of the session list: the screen renders its prop.
SpecGroup == InitGroup /\ [][RenderSessions]_vars

\* The cache layer with prompts: connect and disconnect, the fetches of the
\* three kinds and the prompts to session s1, each answered or failed, and
\* the chat screen mounting and unmounting.
NextErrors ==
    \/ Room /\ Connect
    \/ \E r \in BagToSet(inflight) : ConnectSucceeds(r)
    \/ \E r \in BagToSet(inflight), m \in OneErrorMessage : ConnectFails(r, m)
    \/ StaleRoom /\ Disconnect
    \/ Room /\ RefreshSessions
    \/ \E r \in BagToSet(inflight), d \in OneSessionList :
          SessionsListResponse(r, d)
    \/ \E r \in BagToSet(inflight), m \in OneErrorMessage :
          SessionsListFails(r, m)
    \/ \E r \in BagToSet(inflight), s \in SessionIds, d \in OneMessageList :
          PreviewResponse(r, s, d)
    \/ \E r \in BagToSet(inflight), s \in SessionIds : PreviewFails(r, s)
    \/ Room /\ RefreshSessionMessages("s1")
    \/ \E r \in BagToSet(inflight), d \in OneMessageList :
          MessagesResponse(r, d)
    \/ \E r \in BagToSet(inflight), m \in OneErrorMessage :
          MessagesFails(r, m)
    \/ \E r \in BagToSet(inflight) : ProjectsResponse(r, <<>>)
    \/ \E r \in BagToSet(inflight), m \in OneErrorMessage :
          ProjectsFails(r, m)
    \/ Room /\ BagCardinality(subs) < MaxSubs /\ SubscribeToSession("s1")
    \/ UnsubscribeFromSession
    \/ \E t \in Texts : Room /\ SendPrompt("s1", t)
    \/ \E r \in BagToSet(inflight) : PromptSent(r)
    \/ \E r \in BagToSet(inflight), m \in OneErrorMessage : PromptFails(r, m)
SpecErrors == Init /\ [][NextErrors]_vars

\* session.list as the server answers it for a request's directory header:
\* the sessions of the server's own directory, or those of the directory named
ServerSessions(directory) == IF directory = None THEN <<SessA>> ELSE <<SessB>>

\* handleSelectWorkspace(item) with the sessions screen mounted: the new
\* currentWorkspace is rendered and the screen's effect calls
\* refreshSessionsWithWorkspace(currentWorkspace.path)
SelectWorkspace(item) ==
    LET set == setCurrentWorkspace(Some([id |-> item.id, name |-> item.name,
                                         path |-> item.path,
                                         createdAt |-> 0]))
    IN /\ currentWorkspace' = set.currentWorkspace
       /\ storage' = Append(storage, set.call)
       /\ IF clientRef
          THEN /\ sessionsRefreshing' = TRUE
               /\ inflight' = Add(inflight,
                                  WorkspaceCall("workspaceSessions",
                                                item.path))
          ELSE UNCHANGED <<sessionsRefreshing, inflight>>
       /\ UNCHANGED <<workspaces, workspacesLoading, storedWorkspaces,
                      storedCurrentWorkspace, created, connVars, error,
                      caches, sessions, sessionsLoading, messagesVars,
                      projectsVars, subVars, isSending, groupedSessions>>

\* the provider after construction when an earlier run of the app has
\* created a workspace for AppPath and selected none
InitStored ==
    /\ workspaces = <<>>
    /\ currentWorkspace = None
    /\ workspacesLoading = TRUE
    /\ storedWorkspaces = Some(<<NewWorkspace(1, AppPath, None)>>)
    /\ storedCurrentWorkspace = None
    /\ storage = <<loadWorkspaces>>
    /\ created = 1
    /\ connected = FALSE
    /\ connecting = FALSE
    /\ error = null
    /\ clientRef = FALSE
    /\ caches = [i \in 1..(1 + MaxStaleCaches) |-> EmptyCache]
    /\ sessions = <<>>
    /\ sessionsLoading = FALSE
    /\ sessionsRefreshing = FALSE
    /\ sessionMessagesState = EmptyMap
    /\ sessionMessagesLoading = {}
    /\ sessionMessagesRefreshing = {}
    /\ projects = <<>>
    /\ projectsLoading = FALSE
    /\ activeSessionId = null
    /\ subs = EmptyBag
    /\ inflight = EmptyBag
    /\ isSending = FALSE
    /\ groupedSessions = <<>>

\* no call of the provider's own listing is pending
ListingSettled ==
    \A r \in BagToSet(inflight) : r.kind \notin {"sessions", "previews"}

\* Selecting among workspaces: the stored workspace is loaded, the app
\* connects once and its own listing is answered; then the user selects the
\* Default item or the stored workspace, again and again, and pulls to
\* refresh, and the server answers each listing for its directory.
NextSelect ==
    \/ WorkspacesLoaded
    \/ CurrentWorkspaceLoaded
    \/ ~clientRef /\ Room /\ Connect
    \/ \E r \in BagToSet(inflight) : ConnectSucceeds(r)
    \/ \E r \in BagToSet(inflight) :
          SessionsListResponse(r, ServerSessions(None))
    \/ \E r \in BagToSet(inflight), s \in SessionIds, d \in OneMessageList :
          PreviewResponse(r, s, d)
    \/ \E r \in BagToSet(inflight) : ProjectsResponse(r, <<>>)
    \/ /\ clientRef /\ ListingSettled /\ RaceRoom /\ StorageRoom
       /\ \E i \in 1..(Len(workspaces) + 1) :
             SelectWorkspace(allWorkspaces(workspaces)[i])
    \/ CurrentWorkspaceStored
    \/ ListingSettled /\ RaceRoom /\ RefreshSessionsWithWorkspace
    \/ \E r \in BagToSet(inflight) :
          WorkspaceSessionsResponse(r, ServerSessions(r.directory))
SpecSelect == InitStored /\ [][NextSelect]_vars

(***************************************************************************)
(* Properties.                                                             *)
(***************************************************************************)
\* the number of pending calls of a kind for a session (null: none)
CallsFor(bag, kind, sessionId) ==
    LET of == {r \in BagToSet(bag) : r.kind = kind /\ r.sid = sessionId}
    IN BagCardinality([r \in of |-> bag[r]])

\* the pending calls of fetchSessions, awaiting the list or the previews
SessionsCalls(bag) ==
    CallsFor(bag, "sessions", null) + CallsFor(bag, "previews", null)

\* C1 as stated: a fetch that is not forced and finds a cache entry (the
\* sessions fetch of the connected effect, the messages fetch of
\* subscribeToSession) publishes the cached value and issues no network
\* call for the key.
C1_CacheHitIssuesNoCall ==
    [][ /\ \A s \in SessionIds :
            (SubscribeToSession(s) /\ caches[1].sessionMessages[s] # None)
            => /\ sessionMessagesState'[s] = caches[1].sessionMessages[s]
               /\ CallsFor(inflight', "messages", s)
                      = CallsFor(inflight, "messages", s)
        /\ \A r \in BagToSet(inflight) :
            (ConnectSucceeds(r) /\ ~connected /\ caches[1].sessions # None)
            => /\ sessions' = caches[1].sessions[1]
               /\ SessionsCalls(inflight') = SessionsCalls(inflight)
      ]_vars

\* C1: a fetch that is not forced and finds a cache entry publishes the
\* cached value unchanged, leaves the cache as it is, sets the refreshing
\* flag (not the loading flag) of the key and issues exactly one network
\* call for the key.
C1_CacheHitRevalidates ==
    [][ /\ \A s \in SessionIds :
            (SubscribeToSession(s) /\ caches[1].sessionMessages[s] # None)
            => /\ sessionMessagesState'[s] = caches[1].sessionMessages[s]
               /\ caches'[1] = caches[1]
               /\ s \in sessionMessagesRefreshing'
               /\ sessionMessagesLoading' = sessionMessagesLoading
               /\ CallsFor(inflight', "messages", s)
                      = CallsFor(inflight, "messages", s) + 1
        /\ \A r \in BagToSet(inflight) :
            (ConnectSucceeds(r) /\ ~connected /\ caches[1].sessions # None)
            => /\ sessions' = caches[1].sessions[1]
               /\ caches'[1] = caches[1]
               /\ sessionsRefreshing'
               /\ sessionsLoading' = sessionsLoading
               /\ SessionsCalls(inflight') = SessionsCalls(inflight) + 1
      ]_vars

\* a subscription whose initial fetch found an entry: the entry is
\* published and the call is pending
C1_Witness ==
    \E sub \in BagToSet(subs) : \E r \in BagToSet(inflight) :
        /\ ~sub.aborted /\ sub.stream = "opening"
        /\ r.kind = "messages" /\ r.sid = sub.sid
        /\ r.cachedMessages # None
        /\ sessionMessagesState[sub.sid] = r.cachedMessages
        /\ sub.sid \in sessionMessagesRefreshing

\* C2 as stated: while no client is held (from construction or disconnect()
\* until a later connect() succeeds) the sessions, every session's messages
\* and the projects are empty, in the cache and as published, also when
\* responses to earlier requests arrive.
C2_EmptyWhileDisconnected ==
    ~clientRef => /\ caches[1] = EmptyCache
                  /\ sessions = <<>>
                  /\ sessionMessagesState = EmptyMap
                  /\ projects = <<>>

\* C3 as stated: when the call of a fetchSessionMessages fails, the cache
\* entry of the session is what the fetch read when it started, error is
\* the failure message and both flags of the session are cleared.
C3_EntryAsAtStart ==
    [][ \A r \in BagToSet(inflight) : \A m \in ErrorMessages :
            MessagesFails(r, m)
            => /\ caches'[1].sessionMessages[r.sid] = r.cachedMessages
               /\ error' = m
               /\ r.sid \notin sessionMessagesLoading'
               /\ r.sid \notin sessionMessagesRefreshing'
      ]_vars

\* C3: when the call of a sessions, session-messages or projects fetch
\* fails, the failing fetch leaves the cache as it is at that moment, error
\* becomes the failure message, and the loading and refreshing flags of the
\* key are cleared.
C3_FailureKeepsCache ==
    [][ \A r \in BagToSet(inflight) : \A m \in ErrorMessages :
          /\ MessagesFails(r, m)
             => /\ caches'[1] = caches[1]
                /\ error' = m
                /\ r.sid \notin sessionMessagesLoading'
                /\ r.sid \notin sessionMessagesRefreshing'
          /\ SessionsListFails(r, m)
             => /\ caches'[1] = caches[1]
                /\ error' = m
                /\ ~sessionsLoading' /\ ~sessionsRefreshing'
          /\ ProjectsFails(r, m)
             => /\ caches'[1] = caches[1]
                /\ error' = m
                /\ ~projectsLoading'
      ]_vars

\* a failed refresh with the entry of the session still cached
C3_Witness ==
    /\ clientRef
    /\ error \in ErrorMessages
    /\ caches[1].sessionMessages["s1"] # None
    /\ "s1" \notin sessionMessagesLoading \cup sessionMessagesRefreshing
    /\ CallsFor(inflight, "messages", "s1") = 0

\* C4 as stated: while a fetchSessionMessages is pending, the loading flag
\* of the session is the one set exactly when the fetch found no entry, the
\* refreshing flag exactly when it found one, and the entry it found stays
\* in the cache.
C4_FlagByEntry ==
    \A r \in BagToSet(inflight) :
        (r.kind = "messages" /\ CallsFor(inflight, "messages", r.sid) = 1
           /\ r.cache = 1)
        => /\ r.cachedMessages = None
              => /\ r.sid \in sessionMessagesLoading
                 /\ r.sid \notin sessionMessagesRefreshing
           /\ r.cachedMessages # None
              => /\ r.sid \in sessionMessagesRefreshing
                 /\ r.sid \notin sessionMessagesLoading
                 /\ caches[1].sessionMessages[r.sid] # None

\* C4: a fetch that starts sets the loading flag of its key exactly when it
\* is not forced and finds no cache entry, and the refreshing flag of its key
\* otherwise (forced, or an entry exists); it sets no other flag of the key,
\* and starting it leaves the cache as it is, so an entry stays readable.
C4_FlagAtStart ==
    [][ /\ \A s \in SessionIds :
          /\ RefreshSessionMessages(s)
             => /\ s \in sessionMessagesRefreshing'
                /\ sessionMessagesLoading' = sessionMessagesLoading
                /\ caches' = caches
          /\ SubscribeToSession(s)
             => /\ caches[1].sessionMessages[s] = None
                   => /\ s \in sessionMessagesLoading'
                      /\ sessionMessagesRefreshing'
                             = sessionMessagesRefreshing
                /\ caches[1].sessionMessages[s] # None
                   => /\ s \in sessionMessagesRefreshing'
                      /\ sessionMessagesLoading' = sessionMessagesLoading
                /\ caches' = caches
        /\ RefreshSessions
           => /\ sessionsRefreshing'
              /\ sessionsLoading' = sessionsLoading
              /\ caches' = caches
        /\ \A r \in BagToSet(inflight) :
            (ConnectSucceeds(r) /\ ~connected)
            => /\ caches[1].sessions = None
                  => /\ sessionsLoading'
                     /\ sessionsRefreshing' = sessionsRefreshing
               /\ caches[1].sessions # None
                  => /\ sessionsRefreshing'
                     /\ sessionsLoading' = sessionsLoading
               /\ caches'[1] = caches[1]
      ]_vars

\* a forced refresh that found no entry is pending: refreshing, not loading
C4_Witness ==
    \E r \in BagToSet(inflight) :
        /\ r.kind = "messages" /\ r.cache = 1
        /\ r.cachedMessages = None
        /\ caches[1].sessionMessages[r.sid] = None
        /\ r.sid \in sessionMessagesRefreshing
        /\ r.sid \notin sessionMessagesLoading
        /\ subs = EmptyBag

\* the subscriptions whose interval is scheduled
Scheduled == {sub \in BagToSet(subs) : sub.timer}

\* C5 as stated: at most one polling interval is scheduled, and while a
\* session is active it is the interval of the subscription to that session.
C5_OnePollingTimer ==
    /\ BagCardinality([sub \in Scheduled |-> subs[sub]]) <= 1
    /\ activeSessionId # null
       => \A sub \in Scheduled : sub.sid = activeSessionId

\* the first of the four places of an event that holds a session identifier
TaggedSession(e) ==
    LET ids == PlacesOf(Payload(e))
        present == {i \in 1..4 : ids[i] # null}
    IN IF present = {} THEN null
       ELSE ids[CHOOSE i \in present : \A j \in present : i <= j]

\* C6: an event read from the stream of a subscription to S issues a refresh
\* (one forced fetch of the messages of S) if and only if the subscription is
\* not cancelled, the session identifier of the event is S and its type is
\* one of the four refresh types; otherwise it issues no call and changes no
\* flag and no published list.
C6_EventFilter ==
    \A sub \in BagToSet(subs) : \A e \in Events :
        sub.stream = "open"
        => LET f == streamEvent(sub, e).fetch
               relevant ==
                   /\ ~sub.aborted
                   /\ TaggedSession(e) = sub.sid
                   /\ Payload(e).type \in {"message.updated",
                          "message.part.updated", "session.updated",
                          "session.status"}
           IN /\ relevant
                 => /\ BagCardinality(f.calls) = 1
                    /\ \A r \in BagToSet(f.calls) :
                           r.kind = "messages" /\ r.sid = sub.sid
                    /\ sub.sid \in f.refreshing
              /\ ~relevant
                 => /\ f.calls = EmptyBag
                    /\ f.state = sessionMessagesState
                    /\ f.loading = sessionMessagesLoading
                    /\ f.refreshing = sessionMessagesRefreshing

\* an open stream of a live subscription whose event has issued a refresh
C6_Witness ==
    \E sub \in BagToSet(subs) :
        /\ ~sub.aborted /\ sub.stream = "open"
        /\ CallsFor(inflight, "messages", sub.sid) = 1
        /\ sub.sid \in sessionMessagesRefreshing
        /\ caches[1].sessionMessages[sub.sid] # None

\* C7: a cancelled subscription issues no fetch and changes no flag and no
\* published list, neither on an event of its stream nor on a tick of its
\* interval; once unsubscribeFromSession() has reset the active session,
\* every subscription there is is cancelled.
C7_CancelledIsSilent ==
    /\ \A sub \in BagToSet(subs) :
          sub.aborted
          => /\ sub.stream = "open"
                => \A e \in Events : streamEvent(sub, e).fetch = NoFetch
             /\ sub.timer => pollingTick(sub) = NoFetch
    /\ activeSessionId = null
       => \A sub \in BagToSet(subs) : sub.aborted

\* an unsubscribed subscription whose stream can still deliver events
C7_Witness ==
    \E sub \in BagToSet(subs) :
        /\ clientRef /\ activeSessionId = null
        /\ sub.aborted /\ ~sub.timer /\ sub.stream = "open"
        /\ caches[1].sessionMessages[sub.sid] # None

\* C8 as stated: subscribeToSession(S) with a client held issues a call for
\* the messages of S whether or not S is cached, as a refresh: the refreshing
\* flag of S is set and the loading flag is left alone.
C8_InitialFetchIsForced ==
    [][ \A s \in SessionIds :
            SubscribeToSession(s)
            => /\ CallsFor(inflight', "messages", s)
                      = CallsFor(inflight, "messages", s) + 1
               /\ s \in sessionMessagesRefreshing'
               /\ sessionMessagesLoading' = sessionMessagesLoading
      ]_vars

\* C8: subscribeToSession(S) with a client held issues exactly one call for
\* the messages of S, whether or not S is cached, before the stream is
\* opened; the fetch is not forced: with no entry it sets the loading flag of
\* S, with an entry it publishes the entry and sets the refreshing flag.
C8_InitialFetch ==
    [][ \A s \in SessionIds :
            SubscribeToSession(s)
            => /\ CallsFor(inflight', "messages", s)
                      = CallsFor(inflight, "messages", s) + 1
               /\ activeSessionId' = s
               /\ \E sub \in BagToSet(subs') :
                      /\ sub.sid = s /\ ~sub.aborted
                      /\ sub.stream = "opening"
               /\ caches[1].sessionMessages[s] = None
                  => /\ s \in sessionMessagesLoading'
                     /\ sessionMessagesRefreshing'
                            = sessionMessagesRefreshing
                     /\ sessionMessagesState' = sessionMessagesState
               /\ caches[1].sessionMessages[s] # None
                  => /\ s \in sessionMessagesRefreshing'
                     /\ sessionMessagesLoading' = sessionMessagesLoading
                     /\ sessionMessagesState'[s]
                            = caches[1].sessionMessages[s]
      ]_vars

\* a first subscription to a session that is not cached: loading, call
\* pending, stream not yet open
C8_Witness ==
    \E sub \in BagToSet(subs) : \E r \in BagToSet(inflight) :
        /\ ~sub.aborted /\ sub.stream = "opening"
        /\ activeSessionId = sub.sid
        /\ r.kind = "messages" /\ r.sid = sub.sid
        /\ r.cachedMessages = None
        /\ sub.sid \in sessionMessagesLoading
        /\ sub.sid \notin sessionMessagesRefreshing

\* C9: when the stream of a subscription fails with an error other than an
\* AbortError, the task waits for the backoff if the subscription is not
\* cancelled and ends otherwise; when the backoff has elapsed the stream is
\* opened again if the subscription is still not cancelled, and the task
\* ends, never to open a stream again, if it has been cancelled.
C9_Reconnect ==
    [][ \A sub \in BagToSet(subs) :
          /\ \A n \in ErrorNames \ {"AbortError"} :
                (StreamErrors(sub, n) \/ StreamOpenFails(sub, n))
                => subs' = Step(sub, [sub EXCEPT !.stream =
                                 IF sub.aborted THEN "ended" ELSE "backoff"])
          /\ BackoffFires(sub)
             => subs' = Step(sub, [sub EXCEPT !.stream =
                              IF sub.aborted THEN "ended" ELSE "opening"])
          /\ sub.aborted
             => \A next \in BagToSet(subs') :
                    (next.sid = sub.sid /\ next.aborted
                       /\ next.stream = "opening")
                    => sub.stream = "opening" \/ subs' # Step(sub, next)
      ]_vars

\* the backoff of a subscription that was cancelled in the meantime
C9_Witness ==
    \E sub \in BagToSet(subs) :
        /\ sub.aborted /\ sub.stream = "backoff" /\ clientRef

\* C10: whatever the state of its stream, a subscription that is not
\* cancelled has its interval scheduled, and a tick of it issues one forced
\* fetch of the messages of its session: the refreshing flag is set, the
\* loading flags and the published lists are left alone.
C10_PollingBackstop ==
    \A sub \in BagToSet(subs) :
        ~sub.aborted
        => /\ sub.timer
           /\ LET f == pollingTick(sub) IN
              /\ BagCardinality(f.calls) = 1
              /\ \A r \in BagToSet(f.calls) :
                     r.kind = "messages" /\ r.sid = sub.sid
              /\ sub.sid \in f.refreshing
              /\ f.loading = sessionMessagesLoading
              /\ f.state = sessionMessagesState

\* a tick has refreshed a session that is not cached while the stream of the
\* subscription has ended
C10_Witness ==
    \E sub \in BagToSet(subs) : \E r \in BagToSet(inflight) :
        /\ ~sub.aborted /\ sub.stream \in {"ended", "backoff"}
        /\ r.kind = "messages" /\ r.sid = sub.sid
        /\ r.cachedMessages = None
        /\ sub.sid \in sessionMessagesRefreshing
        /\ sub.sid \notin sessionMessagesLoading

\* C11 as stated: while no client is held (after disconnect()) there is no
\* active session, the abort signal of every subscription is set, and no
\* polling interval is scheduled.
C11_DisconnectTearsDown ==
    ~clientRef => /\ activeSessionId = null
                  /\ \A sub \in BagToSet(subs) : sub.aborted /\ ~sub.timer

\* C12: unsubscribeFromSession() leaves no active session, no controller in
\* sseAbortControllerRef and no interval in pollingIntervalRef, with the
\* controller it found aborted and the interval it found cleared, and it
\* changes no cache entry; a second call in the state it leaves, or a call
\* when nothing is subscribed, changes nothing.
C12_UnsubscribeIdempotent ==
    /\ [][ UnsubscribeFromSession
           => /\ activeSessionId' = null
              /\ caches' = caches
              /\ sessionMessagesState' = sessionMessagesState
              /\ \A sub \in BagToSet(subs') :
                     ~sub.ctrlRef /\ ~sub.pollRef /\ sub.aborted
              /\ BagCardinality([sub \in {x \in BagToSet(subs') : x.timer}
                                     |-> subs'[sub]])
                   = BagCardinality(
                         [sub \in {x \in BagToSet(subs) :
                                       x.timer /\ ~x.pollRef}
                              |-> subs[sub]])
              /\ Unsubscribed(subs') = subs'
         ]_vars
    /\ [](subs = EmptyBag => Unsubscribed(subs) = subs)

\* unsubscribed from a subscription whose stream was still being opened
C12_Witness ==
    \E sub \in BagToSet(subs) :
        /\ clientRef /\ activeSessionId = null
        /\ sub.aborted /\ ~sub.timer /\ ~sub.ctrlRef /\ ~sub.pollRef
        /\ sub.stream = "opening"

\* C13: when the verification call of a connect() fails, connect() resolves
\* to false, error is the failure message and connected is false when the
\* call completes; connected turns true only in the step in which a
\* verification call succeeds.
C13_FailedConnect ==
    [][ /\ \A r \in BagToSet(inflight) : \A m \in ErrorMessages :
            ConnectFails(r, m)
            => /\ error' = m
               /\ ~connected'
               /\ ~connectReturns(FALSE)
        /\ (connected' /\ ~connected)
           => \E r \in BagToSet(inflight) :
                  /\ r.kind = "connect"
                  /\ ConnectSucceeds(r)
                  /\ connectReturns(TRUE)
      ]_vars

\* a connect() that failed while a client was held and connected
C13_Witness ==
    /\ error \in ErrorMessages
    /\ ~connected /\ ~connecting
    /\ clientRef
    /\ inflight = EmptyBag
    /\ caches[1].sessions # None

\* C14 as stated: connecting is true in exactly the states in which a
\* connect() call awaits its verification, also when two calls overlap.
C14_ConnectingIffInFlight ==
    connecting <=> CallsFor(inflight, "connect", null) > 0

\* a step in which a deleteWorkspace call returns: after setItem when its
\* closure did not hold the workspace as current, after the removeItem of the
\* setCurrentWorkspace(null) it awaits otherwise
DeleteReturns ==
    \/ WorkspaceDeleted /\ ~wasCurrent(Head(storage))
    \/ CurrentWorkspaceStored /\ Head(storage).id # None

Selectable(selection, list) ==
    \/ selection = None
    \/ selection[1].id = DefaultId
    \/ selection[1].id \in idsOf(list)

\* C16 as stated: in every reachable state the in-memory selection is
\* absent, Default or a workspace of the in-memory list, and the persisted
\* pointer is absent, Default or a workspace of the persisted list.
C16_SelectionInList ==
    /\ Selectable(currentWorkspace, workspaces)
    /\ Selectable(storedCurrentWorkspace,
                  IF storedWorkspaces # None THEN storedWorkspaces[1]
                  ELSE <<>>)

\* C17: the Default workspace (id 'default', name 'Default', path '/') is
\* the first entry of the displayed list, and the only one with its id,
\* whatever the in-memory and the persisted list contain; it is no element
\* of the persisted list; and a delete attempt on it is no step at all: it
\* calls nothing and changes neither a list nor the selection.
C17_DefaultWorkspace ==
    LET persisted == IF storedWorkspaces # None THEN storedWorkspaces[1]
                     ELSE <<>>
        shown == allWorkspaces(workspaces)
    IN /\ shown[1] = [id |-> DefaultId, name |-> "Default", path |-> Root,
                      isDefault |-> TRUE]
       /\ allWorkspaces(persisted)[1] = shown[1]
       /\ \A i \in 2..Len(shown) :
              shown[i].id # DefaultId /\ ~shown[i].isDefault
       /\ DefaultId \notin idsOf(persisted)
       /\ \A i \in 1..Len(persisted) : Item(persisted[i]) # shown[1]
       /\ deleteRequest(shown[1]) = None
       /\ ~ENABLED HandleDeleteWorkspace(shown[1])

\* workspaces are listed and persisted, and Default is the selection in
\* memory and in storage: the state in which a delete attempt on Default
\* would have something to change
C17_Witness ==
    /\ workspaces # <<>>
    /\ storedWorkspaces = Some(workspaces)
    /\ currentWorkspace # None
    /\ currentWorkspace[1].id = DefaultId
    /\ storedCurrentWorkspace = currentWorkspace
    /\ storage = <<>>

\* C18 as stated: a createWorkspace call appends exactly one entry, with an
\* id that no entry of the in-memory or the persisted list has, to the
\* in-memory list and keeps the entries that were there; and when it
\* returns, the persisted list equals the in-memory list, whatever other
\* calls are pending.
C18_CreateAppendsAndPersists ==
    [][ /\ \A dir \in Directories :
            CreateWorkspace(dir[1], dir[2])
            => /\ Len(workspaces') = Len(workspaces) + 1
               /\ SubSeq(workspaces', 1, Len(workspaces)) = workspaces
               /\ workspaces'[Len(workspaces')].id \notin idsOf(workspaces)
               /\ storedWorkspaces # None
                  => workspaces'[Len(workspaces')].id
                        \notin idsOf(storedWorkspaces[1])
        /\ WorkspaceCreated => storedWorkspaces' = Some(workspaces')
      ]_vars

\* the pending requests of a kind that carry a header
RequestsWith(bag, kind, header) ==
    CallsFor([r \in {x \in BagToSet(bag) : x.directory = header}
                 |-> bag[r]], kind, null)

\* C19 as stated: a session list request (of fetchSessions or of
\* refreshSessionsWithWorkspace) or session create request that is sent
\* while a workspace is selected carries the directory header with the path
\* of that workspace when the path is not '/', and no directory header when
\* it is '/'.
C19_DirectoryHeader ==
    [][ \A kind \in {"sessions", "workspaceSessions", "createSession"} :
        \A header \in {None, Some(AppPath)} :
           ( /\ RequestsWith(inflight', kind, header)
                   > RequestsWith(inflight, kind, header)
             /\ currentWorkspace # None )
           => header = directoryHeader(currentWorkspace[1].path)
      ]_vars

\* the keys of a list never go up, and go down from each entry to the next
Descending(list) ==
    \A i, j \in 1..Len(list) :
        i < j => ~LexLess(DateKey(list[i]), DateKey(list[j]))
StrictlyDescending(list) ==
    \A i, j \in 1..Len(list) :
        i < j => LexLess(DateKey(list[j]), DateKey(list[i]))

C21_PreviewFailureDegrades ==
    [][ \A r \in BagToSet(inflight) : \A s \in SessionIds :
           PreviewFails(r, s)
           => /\ error' = error
              /\ IF r.pending = {s}
                 THEN /\ Len(sessions') = Len(r.sorted)
                      /\ \A i \in 1..Len(r.sorted) :
                            /\ sessions'[i].id = r.sorted[i].id
                            /\ r.sorted[i].id = s
                               => sessions'[i].preview = <<>>
                      /\ r.cache = 1 => caches'[1].sessions = Some(sessions')
                      /\ SessionsCalls(inflight') = SessionsCalls(inflight) - 1
                 ELSE \E n \in BagToSet(inflight') :
                         /\ n.kind = "previews"
                         /\ n.sorted = r.sorted
                         /\ n.pending = r.pending \ {s}
                         /\ n.previews[s] = Some(<<>>)
      ]_vars

\* a listing of two sessions is cached and published with the preview of
\* one session from its messages and the empty preview of the session whose
\* message fetch failed, and no error is set
C21_Witness ==
    /\ Len(sessions) = 2
    /\ caches[1].sessions = Some(sessions)
    /\ sessions[1].preview = <<>>
    /\ sessions[2].preview = TextHi
    /\ caches[1].sessionMessages[sessions[1].id] = None
    /\ error = null

\* C22: overlapping fetches of the messages of a session are not cancelled
\* and the last response to arrive wins, whichever request it answers: a
\* fetch started while another is pending adds a call and removes none; a
\* response that arrives while another fetch of the session is pending
\* completes its own call only and makes its data the cache entry; and the
\* cache entry changes only when a response arrives or the client is
\* dropped, so after both fetches it holds the data that arrived last.
C22_LastArrivalWins ==
    [][ \A s \in SessionIds :
        LET pending == CallsFor(inflight, "messages", s)
            entry == caches[1].sessionMessages[s]
            entryAfter == caches'[1].sessionMessages[s]
        IN
        /\ (pending >= 1 /\ RefreshSessionMessages(s))
           => CallsFor(inflight', "messages", s) = pending + 1
        /\ \A r \in BagToSet(inflight) : \A d \in MessageLists :
              (pending >= 2 /\ r.sid = s /\ MessagesResponse(r, d))
              => /\ CallsFor(inflight', "messages", s) = pending - 1
                 /\ r.cache = 1 => entryAfter = Some(d)
        /\ (entryAfter # entry /\ clientRef')
           => \E r \in BagToSet(inflight) : \E d \in MessageLists :
                 /\ MessagesResponse(r, d)
                 /\ r.sid = s
                 /\ entryAfter = Some(d)
      ]_vars

\* two fetches of s1 overlapped: the response to one has replaced the entry
\* and the messages shown, the other, started before that response arrived,
\* is still pending and its response will replace them again
C22_Witness ==
    /\ caches[1].sessionMessages["s1"] = Some(<<MsgUser, MsgTool>>)
    /\ sessionMessagesState["s1"] = Some(<<MsgUser, MsgTool>>)
    /\ \E r \in BagToSet(inflight) :
          /\ r.kind = "messages" /\ r.sid = "s1" /\ r.cache = 1
          /\ r.cachedMessages = Some(<<>>)

\* the places of a session in the grouping: as a top-level entry, and as the
\* j-th child of the i-th entry
TopLevelAt(grouped, id) ==
    {i \in 1..Len(grouped) : grouped[i].id = id}
NestedAt(grouped, id) ==
    {p \in (1..Len(grouped)) \X (1..Len(sessions)) :
        /\ grouped[p[1]].children # None
        /\ p[2] <= Len(grouped[p[1]].children[1])
        /\ grouped[p[1]].children[1][p[2]].id = id}

\* C23 as stated: the grouping the sessions screen renders places every
\* session of the list exactly once, a session without parentID as a
\* top-level entry and a session with parentID under the entry of its
\* parent, and the children of an entry are in descending order of the key
\* (updatedAt, or createdAt).
C23_EverySessionPlacedOnce ==
    [][ RenderSessions
        => /\ \A k \in 1..Len(sessions) :
                 LET s == sessions[k]
                     top == TopLevelAt(groupedSessions', s.id)
                     nested == NestedAt(groupedSessions', s.id)
                 IN /\ Cardinality(top) + Cardinality(nested) = 1
                    /\ s.parentID = None => nested = {}
                    /\ s.parentID # None
                       => /\ top = {}
                          /\ \A p \in nested :
                                groupedSessions'[p[1]].id = s.parentID[1]
           /\ \A i \in 1..Len(groupedSessions') :
                 groupedSessions'[i].children # None
                 => Descending(groupedSessions'[i].children[1])
      ]_vars

\* C24 as stated: while at least one fetchSessionMessages call of a session
\* awaits its response, the session is in the loading set or in the
\* refreshing set, also when another fetch of the session has completed
\* meanwhile.
C24_FlagWhileInFlight ==
    \A s \in SessionIds :
        CallsFor(inflight, "messages", s) > 0
        => s \in sessionMessagesLoading \cup sessionMessagesRefreshing

\* C25: when no network call is pending, no transient flag is set:
\* connecting, sessionsLoading, sessionsRefreshing, projectsLoading and
\* isSending are false and the loading and refreshing sets of the session
\* messages are empty.
C25_QuiescentFlagsClear ==
    inflight = EmptyBag
    => /\ ~connecting
       /\ ~sessionsLoading /\ ~sessionsRefreshing
       /\ ~projectsLoading
       /\ ~isSending
       /\ sessionMessagesLoading = {}
       /\ sessionMessagesRefreshing = {}

\* every call has returned, the last failed one with an error, after
\* messages of s1 were fetched, with a subscription still active
C25_Witness ==
    /\ inflight = EmptyBag
    /\ clientRef /\ connected
    /\ error \in ErrorMessages
    /\ sessionMessagesState["s1"] = Some(<<MsgUser, MsgTool>>)
    /\ activeSessionId = "s1"
    /\ ~isSending /\ sessionMessagesRefreshing = {}

\* C26 as stated: in every state in which no connect() call awaits its
\* verification, connected is true exactly when clientRef holds a client; a
\* failed connect() leaves no client that could issue fetches.
C26_ConnectedIffClient ==
    CallsFor(inflight, "connect", null) = 0 => (connected <=> clientRef)

\* C27: the shared error changes to null only in the step that starts a
\* connect() call, and changes to a message only in a step in which a
\* connect, a fetch or a sendPrompt fails, each of which sets it to the
\* message of the failure; no response, refresh, sendPrompt, subscribe,
\* unsubscribe or disconnect step changes it.
C27_ErrorSticks ==
    [][ /\ (error' # error /\ error' = null) => Connect
        /\ \A r \in BagToSet(inflight) : \A m \in ErrorMessages :
              ( \/ ConnectFails(r, m) \/ SessionsListFails(r, m)
                \/ MessagesFails(r, m) \/ ProjectsFails(r, m)
                \/ PromptFails(r, m) )
              => error' = m
        /\ (error' # error /\ error' # null)
           => \E r \in BagToSet(inflight) :
                 /\ r.kind \in {"connect", "sessions", "messages", "projects",
                                 "prompt"}
                 /\ CallsFor(inflight', r.kind, r.sid)
                      = CallsFor(inflight, r.kind, r.sid) - 1
      ]_vars

\* an error set while a client was held is still shown after the chat screen
\* was left and disconnect() was called
C27_Witness ==
    /\ error \in ErrorMessages
    /\ ~clientRef /\ ~connected /\ ~connecting
    /\ inflight = EmptyBag
    /\ \E sub \in BagToSet(subs) : sub.aborted /\ ~sub.ctrlRef

\* C28: when the workspace is changed while a listing is in flight, then once
\* every listing request has completed the published session list is the
\* server's answer for the workspace that is now selected, whatever the order
\* of arrival.
C28_ListIsOfSelectedWorkspace ==
    ( /\ currentWorkspace # None
      /\ \A r \in BagToSet(inflight) : r.kind # "workspaceSessions" )
    => sessions = ServerSessions(directoryHeader(currentWorkspace[1].path))

\* C29: the stream task of a subscription that is not cancelled is always
\* opening its stream, reading it, or waiting for the backoff after which it
\* opens the stream again: it never ends while the subscription is active.
C29_StreamOpenOrScheduled ==
    \A sub \in BagToSet(subs) :
        ~sub.aborted => sub.stream \in {"opening", "open", "backoff"}

\* C30 as stated: a sendPrompt(S, text) without a client or with a text that
\* is blank once trimmed issues no call and changes nothing; an accepted one
\* sets isSending and issues the prompt call, and isSending is true while a
\* prompt call is in flight; when the call succeeds one forced refresh of the
\* messages of S is made (fetchSessionMessages(S, true), which issues its call
\* when a client is held), and when it fails the error is its message and no
\* refresh is issued.
C30_SendPromptContract ==
    [][ /\ \A t \in Texts :
              SendPrompt("s1", t)
              => IF sendPromptAccepts(t)
                 THEN /\ isSending'
                      /\ CallsFor(inflight', "prompt", "s1")
                            = CallsFor(inflight, "prompt", "s1") + 1
                 ELSE UNCHANGED vars
        /\ \A s \in SessionIds :
              CallsFor(inflight', "prompt", s) > 0 => isSending'
        /\ \A r \in BagToSet(inflight) :
              PromptSent(r)
              => /\ clientRef
                    => /\ CallsFor(inflight', "messages", r.sid)
                             = CallsFor(inflight, "messages", r.sid) + 1
                       /\ r.sid \in sessionMessagesRefreshing'
                 /\ sendPromptReturns(TRUE, TRUE)
        /\ \A r \in BagToSet(inflight) : \A m \in OneErrorMessage :
              PromptFails(r, m)
              => /\ error' = m
                 /\ CallsFor(inflight', "messages", r.sid)
                       = CallsFor(inflight, "messages", r.sid)
                 /\ ~sendPromptReturns(TRUE, FALSE)
      ]_vars

====
